---- MODULE Spec2Model ----
(***************************************************************************)
(* A model of the opengnk proxy (gonkalabs/opengnk): the sanitization      *)
(* pipeline (TokenMap, classifier fan-out, span validation, redaction,     *)
(* buffered and streaming restoration), the upstream dispatcher, the       *)
(* wallet pool, the tool-call simulation and the request handler.          *)
(*                                                                         *)
(* Texts are byte strings: sequences of integers 0..255, the UTF-8 bytes   *)
(* the Go code indexes.  One module holds several specifications, one per  *)
(* component; each leaves the variables of the other components alone.     *)
(***************************************************************************)
EXTENDS Integers, Sequences, FiniteSets, TLC

VARIABLES
    \* ---- streaming restorer (internal/sanitize/stream.go) ----
    upstream,     \* the byte sequence the upstream body will deliver
    srcPos,       \* number of bytes of upstream already handed to the reader
    rrBuf,        \* RestoringReader.buf
    rrSrcEOF,     \* RestoringReader.srcEOF
    rrTm,         \* RestoringReader.tm (its fromToken dictionary)
    clientOut,    \* concatenation of every chunk Read has returned
    lastChunk,    \* bytes returned by the latest Read call
    readErr,      \* result of the latest Read: "nil", "EOF", "err", or "none"
    \* ---- RedactMessages (internal/sanitize/sanitize.go) ----
    sanClassifiers, \* Sanitizer.classifiers: the configured kinds, in order
    llmValues,    \* the sensitive strings the LLM replies with in this run
    reqBody,      \* the body RedactMessages was called with
    fwdBody,      \* the body being built for forwarding
    rmPc,         \* "classify", "apply" or "done"
    rmIdx,        \* index of the text being redacted, in processing order
    rmWork,       \* the text being redacted and the spans still to apply
    rmChanged,    \* RedactMessages' changed flag
    tm,           \* the request's TokenMap
    globalCounter,\* the process-wide placeholder counter
    otherCount,   \* first-time registrations made by other requests
    ranOn,        \* per processed text: the classifiers runClassifiers got
    nerValues,    \* the byte strings the NER sidecar flags in this run
    clfReliable,  \* the classifiers answer every call, the same way each time
    rmPass,       \* 1: the client's body; 2: the forwarded body, resubmitted
    pass1,        \* the outcome of pass 1, kept while pass 2 runs
    \* ---- runClassifiers and redactText on one text, with time ----
    clk,          \* the time, in seconds
    rcPc,         \* redactText: "start", "select", "returned" or "forwarded"
    rcText,       \* the text redactText was called with
    rcClassifiers,\* the classifiers runClassifiers was called with
    gor,          \* per classifier: its goroutine's position and Classify's outcome
    ch,           \* the buffered channel of results
    rcAll,        \* runClassifiers' all
    rcReceived,   \* the goroutines whose result the select loop received, in order
    deadline,     \* when ctx.Done() becomes ready
    rcStartedAt,  \* the time runClassifiers was entered
    rcReturnedAt, \* the time it returned
    rcOut,        \* the text redactText returned
    rcTm,         \* the TokenMap redactText registers in
    rcCounter,    \* the process-wide placeholder counter
    \* ---- Client.Do / Client.DoStream (internal/upstream/client.go) ----
    endpoints,    \* Client.endpoints
    numWallets,   \* len(Pool.wallets)
    poolCounter,  \* Pool.counter
    dMode,        \* "Do" or "DoStream"
    dPc,          \* "idle", "loop" or "returned"
    attempt,      \* the loop variable
    tried,        \* the addresses in tried
    lastErr,      \* "nil" or "transport"
    dLog,         \* the attempts of the current call: endpoint, wallet, outcome
    dResult,      \* what the call returned
    dCalls,       \* number of calls made so far
    dServed,      \* per returned call that made an attempt: its last wallet
    \* ---- chatCompletions (internal/api/handler.go) ----
    hPc,          \* "received", "streaming" or "done"
    hReq,         \* the client's request: its tools and its stream flag
    hSimulate,    \* Handler.simulateToolCalls
    hTm,          \* the TokenMap RedactMessages returned
    hPath,        \* "none", "buffered", "toolsim" or "stream"
    hUp,          \* what Do / DoStream returned
    hCalls,       \* the upstream calls made: function and forwarded stream flag
    hStatus,      \* status written to the client (0: none yet)
    hHeader,      \* X-Sanitize-Redactions is set on the response
    hWriteErr,    \* a write to the client failed
    hRespBody,    \* resp.Body of streamResponse: "none", "open" or "closed"
    \* ---- concurrent callers of Pool.Next (handler.go:346-351) ----
    nextPc,       \* per goroutine: "idle", "added" (line 349 done) or "returned"
    nextIdx,      \* per goroutine: its local idx
    nextLog,      \* the calls that returned, in order: idx and wallet
    \* ---- toolsim.ParseResponse (internal/toolsim/toolsim.go) ----
    prBody,       \* the upstream response body, as the JSON value it holds
    prTools,      \* the names of the tools the request declared
    prPc,         \* "call" or "done"
    prResult,     \* what ParseResponse did: the body it returned, or a panic
    \* ---- redactText from the spans on (internal/sanitize/sanitize.go) ----
    spText,       \* the text redactText was called with
    spAll,        \* allSpans as runClassifiers returned it
    spPc,         \* "call" or "done"
    spApplied,    \* the spans the loop at line 175 applied, in order
    spOut,        \* the text redactText returned
    spTm,         \* the TokenMap after the call
    \* ---- TokenMap.register called by concurrent requests (internal/sanitize/sanitize.go) ----
    regCounter,   \* globalCounter, shared by every request of the process
    regPc,        \* per handler goroutine: "none", "idle", "add" or "store"
    regTm,        \* per handler goroutine: the TokenMap of its request
    regArg,       \* per handler goroutine: the original register was called with
    regId,        \* per handler goroutine: the id globalCounter.Add returned
    regReq,       \* per handler goroutine: the number of the request it serves
    regBegun,     \* the number of requests begun
    regIds,       \* the ids globalCounter.Add handed out, in order
    regToks,      \* the first-time registrations stored so far
    \* ---- Client.DiscoverEndpoints (internal/upstream/client.go) ----
    clientEndpoints, \* Client.endpoints, as DiscoverEndpoints leaves it
    discBefore,   \* Client.endpoints when the latest DiscoverEndpoints began
    discFetched,  \* what the latest DiscoverEndpoints got from the source, in short
    discErr,      \* what the latest DiscoverEndpoints returned: "nil" or an error
    discCalls,    \* the number of DiscoverEndpoints calls made
    \* ---- toolsim.RewriteRequest (internal/toolsim/toolsim.go) ----
    rwBody,       \* the request body RewriteRequest is called with
    rwPc,         \* "call" or "done"
    rwResult,     \* what RewriteRequest returned
    \* ---- Signer.Sign (internal/signer/signer.go) ----
    sgOrder,      \* the order n of the group the key lives in
    sgKey,        \* Signer.key.D
    sgRaw,        \* r and s as rfc6979Sign returned them in the latest Sign
    sgOut,        \* the signature the latest Sign returned
    sgCalls,      \* the number of Sign calls made
    \* ---- TokenMap.register late in the life of the process (internal/sanitize/sanitize.go) ----
    phCounter,    \* globalCounter
    phTm,         \* the TokenMap of a request
    phTok,        \* the placeholder the latest register returned
    phCalls,      \* the number of register calls the request has made
    \* ---- one request through chatCompletions (internal/api/handler.go) ----
    qPc,          \* "arrived", "read", "route", "call", "reply" or "done"
    qSanitizer,   \* Handler.sanitizer is not nil
    qSimulate,    \* Handler.simulateToolCalls
    qClient,      \* the body the client sent
    qBody,        \* chatCompletions' local body
    qTm,          \* chatCompletions' local tm: <<>> for nil, else <<the TokenMap>>
    qRet,         \* what RedactMessages returned: <<>> while it has not, else <<body, tm>>
    qPath,        \* "none", "buffered", "toolsim" or "stream"
    qPayload,     \* the payload Do / DoStream was called with
    qAttempt,     \* the loop variable of Do / DoStream
    qSent,        \* the requests sent upstream: the payload each carried
    qUp,          \* the reply Do / DoStream returned
    qRestored,    \* the byte strings restoration was applied to
    qStatus,      \* status written to the client (0: none yet)
    qOut,         \* the body written to the client
    \* ---- TokenMap.Restore on a buffered response (internal/sanitize/sanitize.go) ----
    rsTm,         \* the TokenMap redaction left
    rsText,       \* the response text Restore was called with
    rsOut,        \* what the latest Restore returned
    rsCalls,      \* the number of Restore calls made
    \* ---- llmclassifier.Classify from the parsed reply on (internal/sanitize/llmclassifier/llmclassifier.go) ----
    lcText,       \* the text Classify was called with
    lcValues,     \* sensitiveValues, as parsed from the model's reply
    lcPc,         \* "call" or "done"
    lcSpans       \* the spans Classify returned

streamVars == <<upstream, srcPos, rrBuf, rrSrcEOF, rrTm, clientOut, lastChunk, readErr>>

redactVars == <<sanClassifiers, llmValues, reqBody, fwdBody, rmPc, rmIdx, rmWork,
                rmChanged, tm, globalCounter, otherCount, ranOn, nerValues, clfReliable,
                rmPass, pass1>>

classifyVars == <<clk, rcPc, rcText, rcClassifiers, gor, ch, rcAll, rcReceived, deadline,
                  rcStartedAt, rcReturnedAt, rcOut, rcTm, rcCounter>>

dispatchVars == <<endpoints, numWallets, poolCounter, dMode, dPc, attempt, tried, lastErr,
                  dLog, dResult, dCalls, dServed>>

handlerVars == <<hPc, hReq, hSimulate, hTm, hPath, hUp, hCalls, hStatus, hHeader, hWriteErr,
                 hRespBody>>

poolVars == <<nextPc, nextIdx, nextLog>>

parseVars == <<prBody, prTools, prPc, prResult>>

spanVars == <<spText, spAll, spPc, spApplied, spOut, spTm>>

registerVars == <<regCounter, regPc, regTm, regArg, regId, regReq, regBegun, regIds, regToks>>

discoverVars == <<clientEndpoints, discBefore, discFetched, discErr, discCalls>>

rewriteVars == <<rwBody, rwPc, rwResult>>

signVars == <<sgOrder, sgKey, sgRaw, sgOut, sgCalls>>

shapeVars == <<phCounter, phTm, phTok, phCalls>>

requestVars == <<qPc, qSanitizer, qSimulate, qClient, qBody, qTm, qRet, qPath, qPayload, qAttempt, qSent, qUp, qRestored, qStatus, qOut>>

restoreVars == <<rsTm, rsText, rsOut, rsCalls>>

llmVars == <<lcText, lcValues, lcPc, lcSpans>>

vars == <<streamVars, redactVars, classifyVars, dispatchVars, handlerVars, poolVars,
          parseVars, spanVars,
          registerVars,
          discoverVars,
          rewriteVars,
          signVars,
          shapeVars,
          requestVars,
          restoreVars,
          llmVars>>

\* What the steps of one component leave alone.
exceptStream == <<redactVars, classifyVars, dispatchVars, handlerVars, poolVars, parseVars,
    spanVars,
    registerVars,
    discoverVars,
    rewriteVars,
    signVars,
    shapeVars,
    requestVars,
    restoreVars,
    llmVars>>
exceptRedact == <<streamVars, classifyVars, dispatchVars, handlerVars, poolVars, parseVars,
    spanVars,
    registerVars,
    discoverVars,
    rewriteVars,
    signVars,
    shapeVars,
    requestVars,
    restoreVars,
    llmVars>>
exceptClassify == <<streamVars, redactVars, dispatchVars, handlerVars, poolVars, parseVars,
    spanVars,
    registerVars,
    discoverVars,
    rewriteVars,
    signVars,
    shapeVars,
    requestVars,
    restoreVars,
    llmVars>>
exceptDispatch == <<streamVars, redactVars, classifyVars, handlerVars, poolVars, parseVars,
    spanVars,
    registerVars,
    discoverVars,
    rewriteVars,
    signVars,
    shapeVars,
    requestVars,
    restoreVars,
    llmVars>>
exceptHandler == <<redactVars, classifyVars, dispatchVars, poolVars, parseVars,
    spanVars,
    registerVars,
    discoverVars,
    rewriteVars,
    signVars,
    shapeVars,
    requestVars,
    restoreVars,
    llmVars>>
exceptPool == <<streamVars, redactVars, classifyVars, handlerVars, parseVars,
    spanVars,
    registerVars,
    discoverVars,
    rewriteVars,
    signVars,
    shapeVars,
    requestVars,
    restoreVars,
    llmVars>>
exceptParse == <<streamVars, redactVars, classifyVars, dispatchVars, handlerVars, poolVars,
    spanVars,
    registerVars,
    discoverVars,
    rewriteVars,
    signVars,
    shapeVars,
    requestVars,
    restoreVars,
    llmVars>>
exceptSpans == <<streamVars, redactVars, classifyVars, dispatchVars, handlerVars, poolVars,
    parseVars,
    registerVars,
    discoverVars,
    rewriteVars,
    signVars,
    shapeVars,
    requestVars,
    restoreVars,
    llmVars>>
exceptRegister == <<streamVars, redactVars, classifyVars, dispatchVars, handlerVars, poolVars, parseVars, spanVars,
    discoverVars,
    rewriteVars,
    signVars,
    shapeVars,
    requestVars,
    restoreVars,
    llmVars>>
exceptDiscover == <<streamVars, redactVars, classifyVars, dispatchVars, handlerVars, poolVars, parseVars, spanVars, registerVars,
    rewriteVars,
    signVars,
    shapeVars,
    requestVars,
    restoreVars,
    llmVars>>
exceptRewrite == <<streamVars, redactVars, classifyVars, dispatchVars, handlerVars, poolVars, parseVars, spanVars, registerVars, discoverVars,
    signVars,
    shapeVars,
    requestVars,
    restoreVars,
    llmVars>>
exceptSign == <<streamVars, redactVars, classifyVars, dispatchVars, handlerVars, poolVars, parseVars, spanVars, registerVars, discoverVars, rewriteVars,
    shapeVars,
    requestVars,
    restoreVars,
    llmVars>>
exceptShape == <<streamVars, redactVars, classifyVars, dispatchVars, handlerVars, poolVars, parseVars, spanVars, registerVars, discoverVars, rewriteVars, signVars,
    requestVars,
    restoreVars,
    llmVars>>
exceptRequest == <<streamVars, redactVars, classifyVars, dispatchVars, handlerVars, poolVars, parseVars, spanVars, registerVars, discoverVars, rewriteVars, signVars, shapeVars,
    restoreVars,
    llmVars>>
exceptRestore == <<streamVars, redactVars, classifyVars, dispatchVars, handlerVars, poolVars, parseVars, spanVars, registerVars, discoverVars, rewriteVars, signVars, shapeVars, requestVars,
    llmVars>>
exceptLlm == <<streamVars, redactVars, classifyVars, dispatchVars, handlerVars, poolVars, parseVars, spanVars, registerVars, discoverVars, rewriteVars, signVars, shapeVars, requestVars, restoreVars>>

-----------------------------------------------------------------------------
(* Byte strings *)

\* "«TOKEN_" and "»" as UTF-8 bytes (« is C2 AB, » is C2 BB).
tokenPrefix == <<194, 171, 84, 79, 75, 69, 78, 95>>
tokenSuffix == <<194, 187>>

Min(a, b) == IF a < b THEN a ELSE b

\* s[from:] and s[:to] of Go, on 1-based sequences (from, to are Go offsets).
SliceFrom(s, from) == SubSeq(s, from + 1, Len(s))
SliceTo(s, to) == SubSeq(s, 1, to)
Slice(s, from, to) == SubSeq(s, from + 1, to)

HasPrefix(s, p) == Len(s) >= Len(p) /\ SubSeq(s, 1, Len(p)) = p

\* strings.Index: the Go offset of the first occurrence of sub in s, or -1.
IndexFrom(s, sub, i) ==
    LET hits == {j \in i..(Len(s) - Len(sub)) : Slice(s, j, j + Len(sub)) = sub}
    IN  IF hits = {} THEN -1 ELSE CHOOSE j \in hits : \A k \in hits : j <= k

Index(s, sub) == IndexFrom(s, sub, 0)

Contains(s, sub) == Index(s, sub) >= 0

\* strings.ReplaceAll for a non-empty old: non-overlapping, left to right.
RECURSIVE ReplaceAll(_, _, _)
ReplaceAll(s, old, new) ==
    LET i == Index(s, old)
    IN  IF i < 0 THEN s
        ELSE SliceTo(s, i) \o new \o ReplaceAll(SliceFrom(s, i + Len(old)), old, new)

\* Decimal digits of n as ASCII bytes, without padding.
RECURSIVE Decimal(_)
Decimal(n) == IF n < 10 THEN <<48 + n>> ELSE Decimal(n \div 10) \o <<48 + (n % 10)>>

\* fmt's %06d: zero-padded to a width of at least six.
RECURSIVE PadLeft(_, _)
PadLeft(d, w) == IF Len(d) >= w THEN d ELSE PadLeft(<<48>> \o d, w)

\* fmt.Sprintf("«TOKEN_%06d»", id)
placeholderFor(id) == tokenPrefix \o PadLeft(Decimal(id), 6) \o tokenSuffix

-----------------------------------------------------------------------------
(* TokenMap *)

\* A TokenMap is [toToken |-> f, fromToken |-> g], f and g functions on
\* byte strings.
newTokenMap == [toToken |-> <<>>, fromToken |-> <<>>]

\* TokenMap.register with the process-wide counter passed in; yields the
\* map, the counter and the placeholder.
registerFresh(m, counter, original) ==
    LET id == counter + 1
        tok == placeholderFor(id)
    IN  [tm |-> [toToken |-> [o \in DOMAIN m.toToken \cup {original} |->
                                IF o = original THEN tok ELSE m.toToken[o]],
                 fromToken |-> [t \in DOMAIN m.fromToken \cup {tok} |->
                                IF t = tok THEN original ELSE m.fromToken[t]]],
         counter |-> id,
         tok |-> tok]

\* register without the lookup of line 47.
registerAlwaysNew(m, counter, original) == registerFresh(m, counter, original)

register(m, counter, original) ==
    IF original \in DOMAIN m.toToken
    THEN [tm |-> m, counter |-> counter, tok |-> m.toToken[original]]
    ELSE registerFresh(m, counter, original)

IsEmpty(m) == DOMAIN m.toToken = {}

\* All orders in which a Go map range may visit the keys of f.
Orders(f) ==
    {o \in [1..Cardinality(DOMAIN f) -> DOMAIN f] :
        \A i, j \in DOMAIN o : i # j => o[i] # o[j]}

\* TokenMap.Restore / restoreBytes along one iteration order of fromToken.
RECURSIVE RestoreIn(_, _, _)
RestoreIn(fromToken, order, text) ==
    IF order = <<>> THEN text
    ELSE RestoreIn(fromToken, Tail(order),
                   ReplaceAll(text, Head(order), fromToken[Head(order)]))

\* The results Restore can produce: one per iteration order.
Restore(m, text) == {RestoreIn(m.fromToken, o, text) : o \in Orders(m.fromToken)}

restoreBytes(b, fromToken) == {RestoreIn(fromToken, o, b) : o \in Orders(fromToken)}

-----------------------------------------------------------------------------
(* Span validation, deduplication and application (internal/sanitize/sanitize.go) *)

\* A Span is [Start |-> s, End |-> e]: Go byte offsets.  Label and Score are
\* only logged and are left out.

\* wordBoundaryBytes: the bytes of " \t\n\r<>(),;[]{}\"'`".
wordBoundaryBytes == {32, 9, 10, 13, 60, 62, 40, 41, 44, 59, 91, 93, 123, 125, 34, 39, 96}

isWordBoundaryByte(b) == b \in wordBoundaryBytes

\* A test that takes every offset for a rune boundary.
everyOffsetIsBoundary(s, i) == TRUE

\* s[i]&0xC0 != 0x80: the byte at Go offset i is not a UTF-8 continuation byte.
isRuneBoundary(s, i) ==
    IF i = 0 \/ i = Len(s) THEN TRUE
    ELSE ~(s[i + 1] \in 128..191)

isDigit(b) == b \in 48..57

\* Number of leading ASCII digits of s.
RECURSIVE DigitRun(_)
DigitRun(s) == IF s # <<>> /\ isDigit(Head(s)) THEN 1 + DigitRun(Tail(s)) ELSE 0

\* A pattern anchored at both ends, ^«TOKEN_\d+»$: it matches only a string
\* that is one placeholder.
wholePlaceholderRe(s) ==
    /\ HasPrefix(s, tokenPrefix)
    /\ LET after == SliceFrom(s, Len(tokenPrefix))
           d == DigitRun(after)
       IN  d >= 1 /\ SliceFrom(after, d) = tokenSuffix

\* tokenPlaceholderRe.MatchString(s) for the pattern «TOKEN_\d+» (the greedy
\* digit run needs no backtracking, the suffix does not start with a digit).
tokenPlaceholderRe(s) ==
    \E i \in 0..Len(s) :
        LET rest == SliceFrom(s, i)
        IN  /\ HasPrefix(rest, tokenPrefix)
            /\ LET after == SliceFrom(rest, Len(tokenPrefix))
                   d == DigitRun(after)
               IN  d >= 1 /\ HasPrefix(SliceFrom(after, d), tokenSuffix)

\* A test that lets a span begin or end inside a word.
validSpanInsideWords(text, sp) ==
    /\ ~(sp.Start < 0 \/ sp.End > Len(text) \/ sp.Start >= sp.End)
    /\ isRuneBoundary(text, sp.Start) /\ isRuneBoundary(text, sp.End)
    /\ ~tokenPlaceholderRe(Slice(text, sp.Start, sp.End))

\* The test validSpans applies to one span.
validSpan(text, sp) ==
    /\ ~(sp.Start < 0 \/ sp.End > Len(text) \/ sp.Start >= sp.End)
    /\ isRuneBoundary(text, sp.Start) /\ isRuneBoundary(text, sp.End)
    /\ ~tokenPlaceholderRe(Slice(text, sp.Start, sp.End))
    /\ ~(sp.Start > 0 /\ ~isWordBoundaryByte(text[sp.Start]))
    /\ ~(sp.End < Len(text) /\ ~isWordBoundaryByte(text[sp.End + 1]))

validSpans(text, spans) == SelectSeq(spans, LAMBDA sp : validSpan(text, sp))

\* One insertion of sortSpansDesc's inner loop: x moves left past every
\* element with a smaller Start.
RECURSIVE insertDesc(_, _)
insertDesc(sorted, x) ==
    IF sorted # <<>> /\ x.Start > sorted[Len(sorted)].Start
    THEN insertDesc(SubSeq(sorted, 1, Len(sorted) - 1), x) \o <<sorted[Len(sorted)]>>
    ELSE sorted \o <<x>>

RECURSIVE sortFrom(_, _)
sortFrom(sorted, rest) ==
    IF rest = <<>> THEN sorted ELSE sortFrom(insertDesc(sorted, Head(rest)), Tail(rest))

sortSpansDesc(spans) == sortFrom(<<>>, spans)

RECURSIVE dedupFrom(_, _, _)
dedupFrom(out, lastStart, rest) ==
    IF rest = <<>> THEN out
    ELSE LET sp == Head(rest)
         IN  IF lastStart = -1 \/ sp.End <= lastStart
             THEN dedupFrom(out \o <<sp>>, sp.Start, Tail(rest))
             ELSE dedupFrom(out, lastStart, Tail(rest))

\* A deduplication that forgets to compare with the span kept last.
keepEverySpan(spans) == spans

deduplicateSpans(spans) == dedupFrom(<<>>, -1, spans)

\* The spans redactText applies, in application order, for the merged
\* classifier output allSpans.
keptSpans(original, allSpans) ==
    IF allSpans = <<>> THEN <<>>
    ELSE deduplicateSpans(sortSpansDesc(validSpans(original, allSpans)))

\* A splice that puts the placeholder in front of the matched bytes and
\* leaves them in the text.
applySpanBeforeMatch(text, sp, m, counter) ==
    LET matched == Slice(text, sp.Start, sp.End)
        r == register(m, counter, matched)
    IN  [text |-> SliceTo(text, sp.Start) \o r.tok \o SliceFrom(text, sp.Start),
         tm |-> r.tm, counter |-> r.counter]

\* One iteration of the loop of redactText: register the matched bytes and
\* splice the placeholder in.
applySpan(text, sp, m, counter) ==
    LET matched == Slice(text, sp.Start, sp.End)
        r == register(m, counter, matched)
    IN  [text |-> SliceTo(text, sp.Start) \o r.tok \o SliceFrom(text, sp.End),
         tm |-> r.tm, counter |-> r.counter]

-----------------------------------------------------------------------------
(* Classifiers *)

\* isBoundary of the LLM classifier: the same byte set, as a switch.
isBoundary(b) ==
    b \in {32, 9, 10, 13, 60, 62, 44, 59, 40, 41, 91, 93, 123, 125, 34, 39, 96}

isInsideToken(text, start, end) ==
    \/ start > 0 /\ ~isBoundary(text[start])
    \/ end < Len(text) /\ ~isBoundary(text[end + 1])

\* strings.TrimSpace on the ASCII white space.
isSpace(b) == b \in {32, 9, 10, 11, 12, 13}

RECURSIVE TrimLeft(_)
TrimLeft(s) == IF s # <<>> /\ isSpace(Head(s)) THEN TrimLeft(Tail(s)) ELSE s

RECURSIVE TrimRight(_)
TrimRight(s) ==
    IF s # <<>> /\ isSpace(s[Len(s)]) THEN TrimRight(SubSeq(s, 1, Len(s) - 1)) ELSE s

TrimSpace(s) == TrimRight(TrimLeft(s))

\* The search loop of llmclassifier.Classify for one value, from offset start.
RECURSIVE occurrencesFrom(_, _, _)
occurrencesFrom(text, val, start) ==
    LET idx == Index(SliceFrom(text, start), val)
    IN  IF idx < 0 THEN <<>>
        ELSE LET abs == start + idx
                 end == abs + Len(val)
             IN  IF isInsideToken(text, abs, end)
                 THEN occurrencesFrom(text, val, end)
                 ELSE <<[Start |-> abs, End |-> end]>> \o occurrencesFrom(text, val, end)

\* llmclassifier.Classify from the point where the model's reply has been
\* parsed into sensitiveValues.
RECURSIVE llmSpans(_, _)
llmSpans(text, sensitiveValues) ==
    IF sensitiveValues = <<>> THEN <<>>
    ELSE LET val == TrimSpace(Head(sensitiveValues))
             rest == llmSpans(text, Tail(sensitiveValues))
         IN  IF val = <<>> \/ HasPrefix(val, tokenPrefix) THEN rest
             ELSE occurrencesFrom(text, val, 0) \o rest

llmClassify(text, sensitiveValues) ==
    IF TrimSpace(text) = <<>> THEN <<>> ELSE llmSpans(text, sensitiveValues)

-----------------------------------------------------------------------------
(* RedactMessages (internal/sanitize/sanitize.go) *)

\* At most this many spans in one reply of the NER sidecar.
MaxNerSpans == 1

\* At most this many first-time registrations by other requests of the process.
MaxOther == 1

\* Bodies are modelled after JSON decoding.  A body is
\*   [kind |-> "chat", "raw" (not a JSON object) or "nomsg" (no usable
\*    messages array), raw |-> bytes, messages |-> sequence of messages];
\* a message is [role |-> string ("" when absent), content |-> c] and c is
\*   [kind |-> "str", "parts" or "none", parts |-> sequence of parts];
\* a part is [hasText |-> BOOLEAN, text |-> bytes].  String content is held
\* as one part.
Str(t) == [kind |-> "str", parts |-> <<[hasText |-> TRUE, text |-> t]>>]
Parts(ps) == [kind |-> "parts", parts |-> ps]
NoContent == [kind |-> "none", parts |-> <<>>]
TextPart(t) == [hasText |-> TRUE, text |-> t]
ImagePart == [hasText |-> FALSE, text |-> <<>>]
Msg(role, c) == [role |-> role, content |-> c]
Chat(msgs) == [kind |-> "chat", raw |-> <<>>, messages |-> msgs]
RawBody(t) == [kind |-> "raw", raw |-> t, messages |-> <<>>]
NoMessages == [kind |-> "nomsg", raw |-> <<>>, messages |-> <<>>]

\* "sk-abc123", "Bob", "ba a a", "a a", "ba", "a Bob", "ok", "Al" and "Bob, Al".
sk_abc123 == <<115, 107, 45, 97, 98, 99, 49, 50, 51>>
bob == <<66, 111, 98>>
ba_a_a == <<98, 97, 32, 97, 32, 97>>
a_a == <<97, 32, 97>>
ba == <<98, 97>>
a_bob == <<97, 32>> \o bob
ok == <<111, 107>>
al == <<65, 108>>
bob_al == bob \o <<44, 32>> \o al

\* The request bodies RedactMessages is run on.
Bodies ==
    { Chat(<<Msg("user", Str(ba_a_a))>>),
      Chat(<<Msg("user", Str(a_bob)), Msg("assistant", Str(ok)), Msg("user", Str(a_bob))>>),
      Chat(<<Msg("system", Str(ok)), Msg("user", Parts(<<TextPart(bob), ImagePart, TextPart(bob_al)>>))>>),
      Chat(<<Msg("", Str(bob)), Msg("assistant", Str(bob_al)), Msg("user", NoContent)>>),
      Chat(<<Msg("user", Str(bob_al)), Msg("assistant", Str(al))>>),
      RawBody(ba_a_a),
      NoMessages }

\* What the LLM may reply with for a request.
LlmReplies == { <<bob>>, <<a_a, ba>>, <<al, bob>> }

\* What the NER sidecar may take for sensitive in a request ("a" also
\* occurs inside the word "ba").
NerVocabs == { {bob}, {bob, al, <<97>>} }

\* The classifier configurations main.go can build: NER first, LLM last.
ClassifierConfigs == { <<>>, <<"ner">>, <<"llm">>, <<"ner", "llm">> }

\* The variables of a component that a specification does not exercise.
IdleStream ==
    /\ upstream = <<>> /\ srcPos = 0 /\ rrBuf = <<>> /\ rrSrcEOF = FALSE
    /\ rrTm = newTokenMap /\ clientOut = <<>> /\ lastChunk = <<>> /\ readErr = "none"

IdleRedact ==
    /\ sanClassifiers = <<>> /\ llmValues = <<>> /\ reqBody = NoMessages
    /\ fwdBody = NoMessages /\ rmPc = "done" /\ rmIdx = 1
    /\ rmWork = [text |-> <<>>, spans |-> <<>>] /\ rmChanged = FALSE
    /\ tm = newTokenMap /\ globalCounter = 0 /\ otherCount = 0 /\ ranOn = <<>>
    /\ nerValues = {} /\ clfReliable = FALSE /\ rmPass = 1
    /\ pass1 = [forwarded |-> NoMessages, tm |-> newTokenMap]

IdleClassify ==
    /\ clk = 0 /\ rcPc = "forwarded" /\ rcText = <<>> /\ rcClassifiers = <<>>
    /\ gor = <<>> /\ ch = <<>> /\ rcAll = <<>> /\ rcReceived = <<>> /\ deadline = 0
    /\ rcStartedAt = 0 /\ rcReturnedAt = 0 /\ rcOut = <<>> /\ rcTm = newTokenMap
    /\ rcCounter = 0

IdleDispatch ==
    /\ endpoints = <<>> /\ numWallets = 1 /\ poolCounter = 0 /\ dMode = "Do"
    /\ dPc = "idle" /\ attempt = 0 /\ tried = {} /\ lastErr = "nil" /\ dLog = <<>>
    /\ dResult = [reply |-> FALSE, status |-> 0, err |-> "nil"] /\ dCalls = 0
    /\ dServed = <<>>

IdleHandler ==
    /\ hPc = "done" /\ hReq = [tools |-> "none", stream |-> FALSE] /\ hSimulate = FALSE
    /\ hTm = newTokenMap /\ hPath = "none" /\ hUp = [kind |-> "none", status |-> 0]
    /\ hCalls = <<>> /\ hStatus = 0 /\ hHeader = FALSE /\ hWriteErr = FALSE
    /\ hRespBody = "none"

IdlePool ==
    /\ nextPc = <<>> /\ nextIdx = <<>> /\ nextLog = <<>>

IdleSpans ==
    /\ spText = <<>> /\ spAll = <<>> /\ spPc = "done" /\ spApplied = <<>>
    /\ spOut = <<>> /\ spTm = newTokenMap

IdleParse ==
    /\ prBody = <<>> /\ prTools = <<>> /\ prPc = "done"
    /\ prResult = [kind |-> "original", body |-> <<>>]

IdleRegister ==
    /\ regCounter = 0 /\ regPc = <<>> /\ regTm = <<>> /\ regArg = <<>> /\ regId = <<>>
    /\ regReq = <<>> /\ regBegun = 0 /\ regIds = <<>> /\ regToks = {}

IdleDiscover ==
    /\ clientEndpoints = <<>> /\ discBefore = <<>> /\ discFetched = [kind |-> "none", listed |-> 0, usable |-> 0]
    /\ discErr = "nil" /\ discCalls = 0

IdleRewrite ==
    /\ rwBody = <<>> /\ rwPc = "done"
    /\ rwResult = [err |-> "nil", body |-> <<>>, tools |-> <<>>, wasStream |-> FALSE]

IdleSign ==
    /\ sgOrder = 0 /\ sgKey = 0 /\ sgRaw = [r |-> 0, s |-> 0] /\ sgOut = <<>> /\ sgCalls = 0

IdleShape ==
    /\ phCounter = 0 /\ phTm = newTokenMap /\ phTok = <<>> /\ phCalls = 0

IdleRequest ==
    /\ qPc = "done" /\ qSanitizer = FALSE /\ qSimulate = FALSE
    /\ qClient = <<>> /\ qBody = <<>> /\ qTm = <<>> /\ qRet = <<>>
    /\ qPath = "none" /\ qPayload = <<>> /\ qAttempt = 0 /\ qSent = <<>>
    /\ qUp = [kind |-> "none", status |-> 0, body |-> <<>>]
    /\ qRestored = {} /\ qStatus = 0 /\ qOut = <<>>

IdleRestore ==
    /\ rsTm = newTokenMap /\ rsText = <<>> /\ rsOut = <<>> /\ rsCalls = 0

IdleLlm ==
    /\ lcText = <<>> /\ lcValues = <<>> /\ lcPc = "done" /\ lcSpans = <<>>

\* Lines 300-312: the index of the last message with role "user"; 0 when
\* there is none (Go: -1, with 0-based indices).
lastUserIdx(messages) ==
    LET us == {i \in 1..Len(messages) : messages[i].role = "user"}
    IN  IF us = {} THEN 0 ELSE CHOOSE i \in us : \A k \in us : k <= i

\* The texts redactFn is called on, in the order of the loops at lines 315
\* and 343, as <<message index, part index>>; a raw body is one text.
RECURSIVE partPositions(_, _, _)
partPositions(i, parts, j) ==
    IF j > Len(parts) THEN <<>>
    ELSE (IF parts[j].hasText THEN << <<i, j>> >> ELSE <<>>) \o partPositions(i, parts, j + 1)

RECURSIVE messagePositions(_, _)
messagePositions(messages, i) ==
    IF i > Len(messages) THEN <<>>
    ELSE partPositions(i, messages[i].content.parts, 1) \o messagePositions(messages, i + 1)

TextPositions(body) ==
    IF body.kind = "raw" THEN << <<0, 0>> >>
    ELSE IF body.kind = "nomsg" THEN <<>>
    ELSE messagePositions(body.messages, 1)

textAt(body, pos) ==
    IF body.kind = "raw" THEN body.raw
    ELSE body.messages[pos[1]].content.parts[pos[2]].text

setText(body, pos, t) ==
    IF body.kind = "raw" THEN [body EXCEPT !.raw = t]
    ELSE [body EXCEPT !.messages[pos[1]].content.parts[pos[2]].text = t]

\* redactTextWithNER, lines 187-193: all classifiers but the last.
historyClassifiers(classifiers) ==
    IF Len(classifiers) > 1 THEN SubSeq(classifiers, 1, Len(classifiers) - 1) ELSE <<>>

\* Lines 321-324 and 286: redactText (all classifiers) for the last user
\* message and for a raw body, redactTextWithNER for every other message.
classifiersFor(body, pos, classifiers) ==
    IF body.kind = "raw" \/ pos[1] = lastUserIdx(body.messages)
    THEN classifiers
    ELSE historyClassifiers(classifiers)

\* Sequences of at most n elements of S.
SeqsUpTo(S, n) == UNION {[1..k -> S] : k \in 0..n}

\* The spans the NER sidecar may report for a text: the occurrences of the
\* byte strings it takes for sensitive, delimited or not.
NerSpans(text, values) ==
    {sp \in [Start : 0..Len(text), End : 0..Len(text)] :
        sp.Start < sp.End /\ Slice(text, sp.Start, sp.End) \in values}

\* The spans of a set as a sequence, by ascending Start, then End.
RECURSIVE SpanSeq(_)
SpanSeq(S) ==
    IF S = {} THEN <<>>
    ELSE LET first == CHOOSE x \in S : \A y \in S :
                          x.Start < y.Start \/ (x.Start = y.Start /\ x.End <= y.End)
         IN  <<first>> \o SpanSeq(S \ {first})

\* What one classifier hands to runClassifiers' channel: its spans, or no
\* spans when it failed (lines 137-140, ner.go:67-82, llmclassifier.go:132-199).
\* The sidecar reports any of the occurrences, in any order; a reliable one
\* reports them all.
ClassifierResults(kind, text, llmVals, nerVals, reliable) ==
    IF kind = "llm"
    THEN {llmClassify(text, llmVals)} \cup (IF reliable THEN {} ELSE {<<>>})
    ELSE IF reliable THEN {SpanSeq(NerSpans(text, nerVals))}
         ELSE SeqsUpTo(NerSpans(text, nerVals), MaxNerSpans)

\* One result per classifier of cs.
RECURSIVE ResultTuples(_, _, _, _, _)
ResultTuples(cs, text, llmVals, nerVals, reliable) ==
    IF cs = <<>> THEN {<<>>}
    ELSE {<<r>> \o rest : r \in ClassifierResults(Head(cs), text, llmVals, nerVals, reliable),
                          rest \in ResultTuples(Tail(cs), text, llmVals, nerVals, reliable)}

Permutations1(n) == {o \in [1..n -> 1..n] : \A a, b \in 1..n : a # b => o[a] # o[b]}

RECURSIVE Flatten(_)
Flatten(seqs) == IF seqs = <<>> THEN <<>> ELSE Head(seqs) \o Flatten(Tail(seqs))

\* runClassifiers, lines 149-159: results[c] is what classifier c sends,
\* order the order in which the results arrive on the channel, and k how
\* many of them arrive before the budget elapses.
runClassifiers(results, order, k) ==
    Flatten([n \in 1..k |-> results[order[n]]])

\* Position rmIdx is finished with redacted text t: lines 328-334, 352-357.
StoreText(t) ==
    LET pos == TextPositions(reqBody)[rmIdx]
    IN  /\ fwdBody' = setText(fwdBody, pos, t)
        /\ rmChanged' = (rmChanged \/ t # textAt(reqBody, pos))
        /\ rmIdx' = rmIdx + 1
        /\ rmWork' = [text |-> <<>>, spans |-> <<>>]
        /\ rmPc' = IF rmIdx + 1 > Len(TextPositions(reqBody)) THEN "done" ELSE "classify"

\* redactText / redactTextWithNER up to the application loop: the classifiers
\* run on the text of position rmIdx and their spans are validated, sorted
\* and deduplicated.
RunClassifiers ==
    /\ rmPc = "classify"
    /\ LET pos == TextPositions(reqBody)[rmIdx]
           original == textAt(reqBody, pos)
           cs == classifiersFor(reqBody, pos, sanClassifiers)
           N == Len(cs)
       IN  /\ ranOn' = Append(ranOn, [pos |-> pos, classifiers |-> cs])
           /\ \E results \in ResultTuples(cs, original, llmValues, nerValues, clfReliable) :
              \E order \in Permutations1(N) : \E k \in (IF clfReliable THEN {N} ELSE 0..N) :
                   LET kept == keptSpans(original, runClassifiers(results, order, k))
                   IN  IF kept = <<>>
                       THEN StoreText(original)
                       ELSE /\ rmWork' = [text |-> original, spans |-> kept]
                            /\ rmPc' = "apply"
                            /\ UNCHANGED <<fwdBody, rmChanged, rmIdx>>
    /\ UNCHANGED <<sanClassifiers, llmValues, nerValues, clfReliable, reqBody, tm, globalCounter,
                   otherCount, rmPass, pass1>>
    /\ UNCHANGED exceptRedact

\* One iteration of the loop at lines 175-180 / 204-207.
ApplySpan ==
    /\ rmPc = "apply"
    /\ LET r == applySpan(rmWork.text, Head(rmWork.spans), tm, globalCounter)
       IN  /\ tm' = r.tm
           /\ globalCounter' = r.counter
           /\ IF Tail(rmWork.spans) = <<>>
              THEN StoreText(r.text)
              ELSE /\ rmWork' = [text |-> r.text, spans |-> Tail(rmWork.spans)]
                   /\ UNCHANGED <<fwdBody, rmChanged, rmIdx, rmPc>>
    /\ UNCHANGED <<sanClassifiers, llmValues, reqBody, otherCount, ranOn, nerValues, clfReliable,
                   rmPass, pass1>>
    /\ UNCHANGED exceptRedact

\* Another request of the process registers a new original in its own
\* TokenMap: globalCounter.Add(1).
OtherRegister ==
    /\ otherCount < MaxOther
    /\ otherCount' = otherCount + 1
    /\ globalCounter' = globalCounter + 1
    /\ UNCHANGED <<sanClassifiers, llmValues, reqBody, fwdBody, rmPc, rmIdx, rmWork,
                   rmChanged, tm, ranOn, nerValues, clfReliable, rmPass, pass1>>
    /\ UNCHANGED exceptRedact

\* RedactMessages' entry, lines 282-298, for a body: a fresh TokenMap, and
\* nothing to do when there is no text to redact.
enterRedact(body) ==
    /\ reqBody' = body
    /\ fwdBody' = body
    /\ tm' = newTokenMap
    /\ rmIdx' = 1
    /\ rmWork' = [text |-> <<>>, spans |-> <<>>]
    /\ rmChanged' = FALSE
    /\ rmPc' = IF TextPositions(body) = <<>> THEN "done" ELSE "classify"

\* The forwarded body of a finished run: lines 366-376.
forwarded == IF rmChanged THEN fwdBody ELSE reqBody

\* The forwarded body of pass 1 is submitted to RedactMessages again.
Resubmit ==
    /\ rmPc = "done"
    /\ rmPass = 1
    /\ rmPass' = 2
    /\ pass1' = [forwarded |-> forwarded, tm |-> tm]
    /\ enterRedact(forwarded)
    /\ ranOn' = <<>>
    /\ UNCHANGED <<sanClassifiers, llmValues, globalCounter, otherCount, nerValues, clfReliable>>
    /\ UNCHANGED exceptRedact

InitRedact ==
    /\ sanClassifiers \in ClassifierConfigs
    /\ llmValues \in LlmReplies
    /\ reqBody \in Bodies
    /\ fwdBody = reqBody
    /\ tm = newTokenMap
    /\ rmIdx = 1
    /\ rmWork = [text |-> <<>>, spans |-> <<>>]
    /\ rmChanged = FALSE
    /\ rmPc = IF TextPositions(reqBody) = <<>> THEN "done" ELSE "classify"
    /\ globalCounter = 0
    /\ otherCount = 0
    /\ ranOn = <<>>
    /\ nerValues \in NerVocabs
    /\ clfReliable \in BOOLEAN
    /\ rmPass = 1
    /\ pass1 = [forwarded |-> NoMessages, tm |-> newTokenMap]
    /\ IdleStream /\ IdleClassify /\ IdleDispatch /\ IdleHandler /\ IdlePool /\ IdleParse
    /\ IdleSpans
    /\ IdleRegister
    /\ IdleDiscover
    /\ IdleRewrite
    /\ IdleSign
    /\ IdleShape
    /\ IdleRequest
    /\ IdleRestore
    /\ IdleLlm

NextRedact ==
    \/ RunClassifiers
    \/ ApplySpan
    \/ OtherRegister
    \/ Resubmit

-----------------------------------------------------------------------------
(* Streaming restorer: RestoringReader (internal/sanitize/stream.go) *)

holdBack == 20

\* Bounds of the upstream bodies the reader is run on: plain bytes before
\* and after at most one placeholder.
MaxLead == 2
MaxTrail == 21

\* Caller buffer lengths tried for Read's p; 4096 is the handler's buffer.
BufSizes == {0, 16, 4096}

\* The TokenMap of the request whose response is streamed: two registrations
\* taken from a fresh process counter.
StreamTokenMap == register(register(newTokenMap, 0, sk_abc123).tm, 1, bob).tm

\* n plain bytes, the letters a..z in turn starting at the off-th.
Letters(n, off) == [i \in 1..n |-> 97 + ((i + off - 1) % 26)]

\* Upstream bodies: lead plain bytes, then the placeholder of id k (none for
\* k = 0), then trail plain bytes; "hello «TOKEN_000001»!" has this shape
\* with lead = 6, k = 1, trail = 1.
Streams ==
    {Letters(lead, 0) \o (IF k = 0 THEN <<>> ELSE placeholderFor(k)) \o Letters(trail, lead) :
        lead \in 0..MaxLead, k \in 0..2, trail \in 0..MaxTrail}

\* A copy that hands over the whole of b whatever the size of p.
copyOutWhole(b, lenp) ==
    [chunk |-> b, rest |-> <<>>]

\* A copy that forgets the bytes p had no room for.
copyOutDropping(b, lenp) ==
    LET n == Min(lenp, Len(b))
    IN  [chunk |-> SliceTo(b, n), rest |-> <<>>]

\* copy(p, b) followed by b[n:]: what reaches the caller and what stays.
copyOut(b, lenp) ==
    LET n == Min(lenp, Len(b))
    IN  [chunk |-> SliceTo(b, n), rest |-> SliceFrom(b, n)]

\* NewRestoringReader: the reader is only wrapped around a non-empty map;
\* with an empty map the source itself is returned.
NewRestoringReader(m) == ~IsEmpty(m)

\* Read, lines 44-49: buffered output is drained first, unrestored.
ReadDrain(lenp) ==
    /\ Len(rrBuf) > 0
    /\ LET c == copyOut(rrBuf, lenp)
       IN  /\ rrBuf' = c.rest
           /\ lastChunk' = c.chunk
           /\ clientOut' = clientOut \o c.chunk
    /\ readErr' = "nil"
    /\ UNCHANGED <<upstream, srcPos, rrSrcEOF, rrTm>>

\* Read, lines 51-53.
ReadEOF ==
    /\ Len(rrBuf) = 0
    /\ rrSrcEOF
    /\ lastChunk' = <<>>
    /\ readErr' = "EOF"
    /\ UNCHANGED <<upstream, srcPos, rrBuf, rrSrcEOF, rrTm, clientOut>>

\* Read, lines 55-99, for a source read of n bytes with error srcErr
\* ("nil", "EOF" or "err").  A source read returns at most len(tmp) = 2*len(p)
\* bytes and, with a nil error, at least one.
ReadSource(lenp, n, srcErr) ==
    /\ Len(rrBuf) = 0
    /\ ~rrSrcEOF
    /\ srcErr = "nil" => n > 0
    /\ srcErr = "EOF" => srcPos + n = Len(upstream)
    /\ srcPos' = srcPos + n
    /\ LET chunk == Slice(upstream, srcPos, srcPos + n)
           eof == srcErr = "EOF"
       IN  IF srcErr = "err"
           THEN \* line 61: return 0, err
                /\ lastChunk' = <<>>
                /\ readErr' = "err"
                /\ UNCHANGED <<rrBuf, rrSrcEOF, clientOut>>
           ELSE IF ~eof /\ Len(chunk) <= holdBack
           THEN \* lines 76-79: buffer everything, then Read again, which
                \* finds the buffer non-empty and drains it (lines 45-48)
                LET c == copyOut(rrBuf \o chunk, lenp)
                IN  /\ rrBuf' = c.rest
                    /\ lastChunk' = c.chunk
                    /\ clientOut' = clientOut \o c.chunk
                    /\ readErr' = "nil"
                    /\ UNCHANGED rrSrcEOF
           ELSE LET safe == IF eof THEN chunk ELSE SliceTo(chunk, Len(chunk) - holdBack)
                    held == IF eof THEN rrBuf
                            ELSE rrBuf \o SliceFrom(chunk, Len(chunk) - holdBack)
                IN  \E restored \in restoreBytes(safe, rrTm.fromToken) :
                    \E tail \in (IF eof /\ Len(held) > 0
                                 THEN restoreBytes(held, rrTm.fromToken) ELSE {held}) :
                        LET c == copyOut(restored, lenp)
                        IN  /\ rrBuf' = c.rest \o tail
                            /\ lastChunk' = c.chunk
                            /\ clientOut' = clientOut \o c.chunk
                            /\ readErr' = "nil"
                            /\ rrSrcEOF' = eof
    /\ UNCHANGED <<upstream, rrTm>>

\* Read, lines 40-42: an empty p returns 0, nil and touches nothing.
ReadEmpty ==
    /\ lastChunk' = <<>>
    /\ readErr' = "nil"
    /\ UNCHANGED <<upstream, srcPos, rrBuf, rrSrcEOF, rrTm, clientOut>>

\* One call of RestoringReader.Read(p) with len(p) = lenp.  The caller stops
\* calling after an error (EOF included).
Read(lenp) ==
    /\ readErr \in {"none", "nil"}
    /\ IF lenp = 0 THEN ReadEmpty
       ELSE \/ ReadDrain(lenp)
            \/ ReadEOF
            \/ \E n \in 0..Min(2 * lenp, Len(upstream) - srcPos) :
               \E srcErr \in {"nil", "EOF", "err"} :
                   ReadSource(lenp, n, srcErr)

InitStream ==
    /\ upstream \in Streams
    /\ srcPos = 0
    /\ rrBuf = <<>>
    /\ rrSrcEOF = FALSE
    /\ rrTm = StreamTokenMap
    /\ NewRestoringReader(rrTm)
    /\ clientOut = <<>>
    /\ lastChunk = <<>>
    /\ readErr = "none"
    /\ IdleRedact /\ IdleClassify /\ IdleDispatch /\ IdleHandler /\ IdlePool /\ IdleParse
    /\ IdleSpans
    /\ IdleRegister
    /\ IdleDiscover
    /\ IdleRewrite
    /\ IdleSign
    /\ IdleShape
    /\ IdleRequest
    /\ IdleRestore
    /\ IdleLlm

NextStream == (\E lenp \in BufSizes : Read(lenp)) /\ UNCHANGED exceptStream

SpecStream ==
    InitStream /\ [][NextStream]_vars

SpecRedact ==
    InitRedact /\ [][NextRedact]_vars

\* C1 (stream parity): once Read has returned EOF, the concatenation of all
\* bytes it returned equals the buffered restoration T.Restore(S) of the
\* upstream byte sequence S.
C1_StreamParity ==
    readErr = "EOF" => clientOut \in Restore(rrTm, upstream)

\* A chunk ends with a non-empty proper prefix of a registered placeholder.
EndsWithPartial(chunk, fromToken) ==
    \E tok \in DOMAIN fromToken : \E k \in 1..(Len(tok) - 1) :
        /\ Len(chunk) >= k
        /\ SliceFrom(chunk, Len(chunk) - k) = SliceTo(tok, k)

\* A chunk begins with the non-empty remainder of a registered placeholder.
BeginsWithRemainder(chunk, fromToken) ==
    \E tok \in DOMAIN fromToken : \E k \in 1..(Len(tok) - 1) :
        HasPrefix(chunk, SliceFrom(tok, k))

\* C2 (no partial placeholder): no chunk returned by Read ends with a proper
\* prefix of a registered placeholder or begins with the remainder of one.
C2_NoPartialPlaceholder ==
    /\ ~EndsWithPartial(lastChunk, rrTm.fromToken)
    /\ ~BeginsWithRemainder(lastChunk, rrTm.fromToken)

\* The upstream body holds no placeholder of the reader's TokenMap.
noPlaceholderUpstream ==
    \A tok \in DOMAIN rrTm.fromToken : ~Contains(upstream, tok)

\* C37 (pass-through without placeholders): for an upstream body without
\* placeholders, whatever the sizes of the source reads and of the caller's
\* buffer, the bytes Read has returned followed by the bytes it holds are
\* the bytes the source has delivered, in their order, and once Read has
\* returned EOF the bytes returned are the whole body; after a source error
\* the bytes returned are a prefix of the body.
C37_PassThrough ==
    noPlaceholderUpstream =>
        /\ readErr # "err" => clientOut \o rrBuf = SliceTo(upstream, srcPos)
        /\ readErr = "err" => HasPrefix(upstream, clientOut)
        /\ readErr = "EOF" => clientOut = upstream

\* 23 plain bytes came in one source read without EOF: the first three were
\* returned and the last twenty are held back.
C37_Witness ==
    /\ upstream = Letters(holdBack + 3, 0)
    /\ srcPos = Len(upstream)
    /\ ~rrSrcEOF
    /\ readErr = "nil"
    /\ clientOut = SliceTo(upstream, 3)
    /\ rrBuf = SliceFrom(upstream, 3)

\* C38 (stream termination): once the source has returned EOF, a Read with
\* a non-empty p hands over a non-empty front of the held bytes and keeps
\* the rest, in order, while bytes are held, and returns EOF with no bytes
\* once none is held; a Read that returns EOF leaves no byte held, and a
\* Read never returns more than len(p) bytes.
C38_StreamTermination ==
    [][(\A lenp \in BufSizes \ {0} :
            (rrSrcEOF /\ Read(lenp)) =>
                IF Len(rrBuf) > 0
                THEN (readErr' = "nil") /\ (Len(lastChunk') > 0)
                     /\ (lastChunk' \o rrBuf' = rrBuf)
                     /\ (clientOut' = clientOut \o lastChunk')
                ELSE (readErr' = "EOF") /\ (lastChunk' = <<>>)
                     /\ (clientOut' = clientOut))
       /\ (readErr' = "EOF" => (rrBuf' = <<>> /\ rrSrcEOF'))
       /\ (\A lenp \in BufSizes : (Len(lastChunk') <= lenp) \/ ~Read(lenp))]_vars

\* The source ended with more bytes than p holds: Read filled a p of 16
\* bytes and still holds the rest, with no EOF returned yet.
C38_Witness ==
    /\ rrSrcEOF
    /\ readErr = "nil"
    /\ Len(lastChunk) = 16
    /\ Len(rrBuf) > 0

-----------------------------------------------------------------------------
(* Properties of RedactMessages *)

\* val occurs in text delimited by word-boundary bytes (or the text's ends).
OccursDelimited(text, val) ==
    \E i \in 0..(Len(text) - Len(val)) :
        /\ Slice(text, i, i + Len(val)) = val
        /\ i = 0 \/ isWordBoundaryByte(text[i])
        /\ i + Len(val) = Len(text) \/ isWordBoundaryByte(text[i + Len(val) + 1])

PositionSet(body) == {TextPositions(body)[n] : n \in 1..Len(TextPositions(body))}

\* C4 (only placeholders are forwarded): after RedactMessages has returned,
\* no value registered in the request's TokenMap occurs in clear text,
\* delimited by word boundaries, in any message content of the forwarded body.
C4_NoRegisteredValueInClear ==
    rmPc = "done" =>
        \A pos \in PositionSet(forwarded) : \A o \in DOMAIN tm.toToken :
            ~OccursDelimited(textAt(forwarded, pos), o)

\* The text a step of the application loop leaves behind.
textAfterApply ==
    IF rmPc' = "apply" THEN rmWork'.text
    ELSE textAt(fwdBody', TextPositions(reqBody)[rmIdx])

\* What one step may do to the TokenMap and the counter: entries stay as they
\* are, distinct originals have distinct placeholders, and registering an
\* original that is already in the map splices its existing placeholder in
\* and leaves the counter alone.
StableStep ==
    /\ rmPass' = rmPass =>
          \A o \in DOMAIN tm.toToken :
              o \in DOMAIN tm'.toToken /\ tm'.toToken[o] = tm.toToken[o]
    /\ \A o1, o2 \in DOMAIN tm'.toToken : o1 # o2 => tm'.toToken[o1] # tm'.toToken[o2]
    /\ (rmPc = "apply" /\ rmWork' # rmWork) =>
          LET sp == Head(rmWork.spans)
              matched == Slice(rmWork.text, sp.Start, sp.End)
          IN  /\ matched \in DOMAIN tm'.toToken
              /\ textAfterApply = SliceTo(rmWork.text, sp.Start) \o tm'.toToken[matched]
                                      \o SliceFrom(rmWork.text, sp.End)
              /\ matched \in DOMAIN tm.toToken =>
                     tm' = tm /\ globalCounter' = globalCounter
              /\ matched \notin DOMAIN tm.toToken => globalCounter' = globalCounter + 1

\* C5 (stable mapping): within one request's TokenMap, registering the same
\* original again, in any message or content part, returns the same
\* placeholder and consumes the counter only the first time; two distinct
\* originals never receive the same placeholder.
C5_StableMapping == [][StableStep]_vars

\* The same original was registered in two different texts of one request,
\* next to a second original with a placeholder of its own.
C5_Witness ==
    /\ rmPc = "done"
    /\ Cardinality(DOMAIN tm.toToken) >= 2
    /\ \E o \in DOMAIN tm.toToken :
          Cardinality({pos \in PositionSet(forwarded) :
                          Contains(textAt(forwarded, pos), tm.toToken[o])}) >= 2

\* C6 (idempotence of redaction): RedactMessages applied to the forwarded
\* body of a previous RedactMessages, the classifiers flagging the same
\* sensitive values both times, registers no new placeholder and returns
\* that body unchanged.
C6_RedactionIdempotent ==
    (clfReliable /\ rmPass = 2) =>
        /\ IsEmpty(tm)
        /\ rmPc = "done" => forwarded = pass1.forwarded

\* The classifiers the message-scope policy asks for at a position.
policyClassifiers(body, pos, classifiers) ==
    IF pos[1] = lastUserIdx(body.messages) THEN classifiers
    ELSE SelectSeq(classifiers, LAMBDA c : c # "llm")

\* C9 (message-scope policy): for every classifier configuration, all
\* configured classifiers run on the last user message and exactly the
\* configured non-LLM classifiers run on every other message.
C9_MessageScopePolicy ==
    reqBody.kind = "chat" =>
        \A n \in 1..Len(ranOn) :
            ranOn[n].classifiers = policyClassifiers(reqBody, ranOn[n].pos, sanClassifiers)

-----------------------------------------------------------------------------
(* runClassifiers and redactText on one text, with time                    *)
(* (internal/sanitize/sanitize.go:116-182)                                 *)

\* const classifierBudget = 120 * time.Second, in seconds.
classifierBudget == 120

\* How long the clock is followed, how late runClassifiers may start, and
\* the seconds that pass in one step of the clock.
MaxClock == 122
MaxStartDelay == 1
tickSeconds == 10

a_e == <<97, 32, 98, 32, 99, 32, 100, 32, 101>>          \* "a b c d e"

\* The texts redactText is run on.
ClassifyTexts == {a_e, bob_al}

\* What the NER sidecar and the LLM take for sensitive in these texts.
classifyNerValues == {<<97>>, <<98>>, <<99>>, <<100>>, <<101>>, bob, al}
classifyLlmValues == <<<<99>>, bob>>

\* What Classify may return: spans and a nil error (no span when the service
\* is unreachable or answers with a bad status), or nil and an error
\* (ner.go:53-82, llmclassifier.go:115-199).
ClassifyOutcomes(kind, text) ==
    { [spans |-> IF kind = "llm" THEN llmClassify(text, classifyLlmValues)
                 ELSE SpanSeq(NerSpans(text, classifyNerValues)),
       err |-> FALSE],
      [spans |-> <<>>, err |-> FALSE],
      [spans |-> <<>>, err |-> TRUE] }

\* Lines 136-142: what the goroutine sends for an outcome of Classify.
resultFor(outcome) == IF outcome.err THEN <<>> ELSE outcome.spans

\* Line 153 with the mistake of taking an empty result for a failed run.
appendOrReset(all, spans) == IF spans = <<>> THEN <<>> ELSE all \o spans

\* Line 153: all = append(all, r.spans...).
appendSpans(all, spans) == all \o spans

\* A deadline that never fires.
neverDone(now, dl) == FALSE

\* <-ctx.Done() is ready once the budget has elapsed.
ctxDone(now, dl) == now >= dl

\* A channel with one slot less than there are classifiers.
chanCapOneShort(n) == n - 1

\* Line 132: ch := make(chan result, len(classifiers)).
chanCap(n) == n

\* Lines 174-180: the replacement loop over the kept spans.
RECURSIVE applySpans(_, _, _, _)
applySpans(text, spans, m, counter) ==
    IF spans = <<>> THEN [text |-> text, tm |-> m, counter |-> counter]
    ELSE LET r == applySpan(text, Head(spans), m, counter)
         IN  applySpans(r.text, Tail(spans), r.tm, r.counter)

\* redactText after runClassifiers returned allSpans: lines 166-181.
redactText(original, allSpans, m, counter) ==
    IF allSpans = <<>> THEN [text |-> original, tm |-> m, counter |-> counter]
    ELSE applySpans(original, keptSpans(original, allSpans), m, counter)

\* runClassifiers returns all.
returnAll(all) ==
    /\ rcAll' = all
    /\ rcPc' = "returned"
    /\ rcReturnedAt' = clk

\* runClassifiers' entry, lines 125-147: no classifier, nil at once; else
\* the channel, one goroutine per classifier and the context with its
\* deadline.
StartClassifiers ==
    /\ rcPc = "start"
    /\ rcStartedAt' = clk
    /\ IF rcClassifiers = <<>>
       THEN /\ returnAll(<<>>)
            /\ UNCHANGED <<gor, deadline>>
       ELSE /\ gor' = [i \in 1..Len(rcClassifiers) |->
                          [pc |-> "classify", outcome |-> [spans |-> <<>>, err |-> FALSE]]]
            /\ deadline' = clk + classifierBudget
            /\ rcPc' = "select"
            /\ UNCHANGED <<rcAll, rcReturnedAt>>
    /\ UNCHANGED <<clk, rcText, rcClassifiers, ch, rcReceived, rcOut, rcTm, rcCounter>>
    /\ UNCHANGED exceptClassify

\* Line 136: Classify returns in goroutine i.
ClassifyReturns(i) ==
    /\ gor[i].pc = "classify"
    /\ \E o \in ClassifyOutcomes(rcClassifiers[i], rcText) :
           gor' = [gor EXCEPT ![i] = [pc |-> "send", outcome |-> o]]
    /\ UNCHANGED <<clk, rcPc, rcText, rcClassifiers, ch, rcAll, rcReceived, deadline,
                   rcStartedAt, rcReturnedAt, rcOut, rcTm, rcCounter>>
    /\ UNCHANGED exceptClassify

\* Lines 139 and 142: goroutine i sends its result; the send waits while
\* the channel is full.
SendResult(i) ==
    /\ gor[i].pc = "send"
    /\ Len(ch) < chanCap(Len(rcClassifiers))
    /\ ch' = Append(ch, [from |-> i, spans |-> resultFor(gor[i].outcome)])
    /\ gor' = [gor EXCEPT ![i].pc = "done"]
    /\ UNCHANGED <<clk, rcPc, rcText, rcClassifiers, rcAll, rcReceived, deadline,
                   rcStartedAt, rcReturnedAt, rcOut, rcTm, rcCounter>>
    /\ UNCHANGED exceptClassify

\* A loop that goes on receiving after runClassifiers has returned.
loopNeverEnds(pc) == pc \in {"select", "returned", "forwarded"}

\* Lines 150-158: the loop that receives is running.
loopRunning(pc) == pc = "select"

\* Lines 150-153: the select takes a result from the channel; after the
\* last iteration of the loop, line 159 returns all.
Receive ==
    /\ loopRunning(rcPc)
    /\ ch # <<>>
    /\ ch' = Tail(ch)
    /\ rcReceived' = Append(rcReceived, Head(ch).from)
    /\ LET all == appendSpans(rcAll, Head(ch).spans)
       IN  IF Len(rcReceived) + 1 = Len(rcClassifiers)
           THEN returnAll(all)
           ELSE /\ rcAll' = all
                /\ UNCHANGED <<rcPc, rcReturnedAt>>
    /\ UNCHANGED <<clk, rcText, rcClassifiers, gor, deadline, rcStartedAt, rcOut, rcTm,
                   rcCounter>>
    /\ UNCHANGED exceptClassify

\* Lines 154-156: the select takes ctx.Done() and returns what it has.
BudgetExceeded ==
    /\ rcPc = "select"
    /\ ctxDone(clk, deadline)
    /\ returnAll(rcAll)
    /\ UNCHANGED <<clk, rcText, rcClassifiers, gor, ch, rcReceived, deadline, rcStartedAt,
                   rcOut, rcTm, rcCounter>>
    /\ UNCHANGED exceptClassify

\* Lines 166-181: redactText validates and applies the spans it got; its
\* caller forwards the text.
RedactText ==
    /\ rcPc = "returned"
    /\ LET r == redactText(rcText, rcAll, rcTm, rcCounter)
       IN  /\ rcOut' = r.text
           /\ rcTm' = r.tm
           /\ rcCounter' = r.counter
    /\ rcPc' = "forwarded"
    /\ UNCHANGED <<clk, rcText, rcClassifiers, gor, ch, rcAll, rcReceived, deadline,
                   rcStartedAt, rcReturnedAt>>
    /\ UNCHANGED exceptClassify

\* Time passes.  The select loop does not sleep through a ready ctx.Done():
\* while it waits, time passes up to the deadline and stops there.
Tick ==
    /\ clk < MaxClock
    /\ rcPc = "start" => clk < MaxStartDelay
    /\ ~(rcPc = "select" /\ ctxDone(clk, deadline))
    /\ clk' = IF rcPc = "select" /\ clk < deadline THEN Min(clk + tickSeconds, deadline)
              ELSE clk + tickSeconds
    /\ UNCHANGED <<rcPc, rcText, rcClassifiers, gor, ch, rcAll, rcReceived, deadline,
                   rcStartedAt, rcReturnedAt, rcOut, rcTm, rcCounter>>
    /\ UNCHANGED exceptClassify

InitClassify ==
    /\ clk = 0
    /\ rcPc = "start"
    /\ rcText \in ClassifyTexts
    /\ rcClassifiers \in ClassifierConfigs
    /\ gor = <<>>
    /\ ch = <<>>
    /\ rcAll = <<>>
    /\ rcReceived = <<>>
    /\ deadline = 0
    /\ rcStartedAt = 0
    /\ rcReturnedAt = 0
    /\ rcOut = rcText
    /\ rcTm = newTokenMap
    /\ rcCounter = 0
    /\ IdleStream /\ IdleRedact /\ IdleDispatch /\ IdleHandler /\ IdlePool /\ IdleParse
    /\ IdleSpans
    /\ IdleRegister
    /\ IdleDiscover
    /\ IdleRewrite
    /\ IdleSign
    /\ IdleShape
    /\ IdleRequest
    /\ IdleRestore
    /\ IdleLlm

NextClassify ==
    \/ StartClassifiers
    \/ \E i \in DOMAIN gor : ClassifyReturns(i)
    \/ \E i \in DOMAIN gor : SendResult(i)
    \/ Receive
    \/ BudgetExceeded
    \/ RedactText
    \/ Tick

SpecClassify ==
    InitClassify /\ [][NextClassify]_vars

\* The results the select loop received, in the order it received them.
receivedResults ==
    Flatten([n \in 1..Len(rcReceived) |-> resultFor(gor[rcReceived[n]].outcome)])

\* C7 (bounded wait with partial results): runClassifiers returns no later
\* than classifierBudget (120 s) after it starts, even if a classifier never
\* returns, and the spans it returns are exactly those of the classifiers
\* whose results it received by then; it is never still waiting after the
\* budget.
C7_BoundedWait ==
    /\ rcPc = "select" => clk <= rcStartedAt + classifierBudget
    /\ rcPc \in {"returned", "forwarded"} =>
          /\ rcReturnedAt <= rcStartedAt + classifierBudget
          /\ rcAll = receivedResults
          /\ \A i \in DOMAIN gor : \A n \in DOMAIN rcReceived :
                 rcReceived[n] = i => gor[i].pc = "done"

\* NER's five spans were received, the LLM never returned, runClassifiers
\* returned on the deadline and the five spans were redacted.
C7_Witness ==
    /\ rcPc = "forwarded"
    /\ rcClassifiers = <<"ner", "llm">>
    /\ gor[2].pc = "classify"
    /\ rcReceived = <<1>>
    /\ Len(rcAll) = 5
    /\ rcReturnedAt = rcStartedAt + classifierBudget
    /\ Cardinality(DOMAIN rcTm.toToken) = 5
    /\ rcOut # rcText

\* The spans of the received results of classifiers that did not fail.
spansOfTheOthers ==
    Flatten([n \in 1..Len(rcReceived) |->
                IF gor[rcReceived[n]].outcome.err THEN <<>>
                ELSE gor[rcReceived[n]].outcome.spans])

\* C8 (classifier errors are advisory): a classifier that returns an error
\* contributes no span and does not fail the request; the spans the other
\* classifiers returned for the text are still validated and applied, and
\* the text is forwarded.
C8_ErrorContributesNothing ==
    /\ rcPc \in {"returned", "forwarded"} => rcAll = spansOfTheOthers
    /\ rcPc = "forwarded" =>
          rcOut = redactText(rcText, spansOfTheOthers, newTokenMap, 0).text

\* One classifier failed, the other's spans were applied and the text was
\* forwarded.
C8_Witness ==
    /\ rcPc = "forwarded"
    /\ \E i \in DOMAIN gor : i \in {rcReceived[n] : n \in DOMAIN rcReceived}
                             /\ gor[i].outcome.err
    /\ \E i \in DOMAIN gor : i \in {rcReceived[n] : n \in DOMAIN rcReceived}
                             /\ gor[i].outcome.spans # <<>>
    /\ rcOut # rcText
    /\ ~IsEmpty(rcTm)

\* C28 (late results are never read): once runClassifiers has returned, a
\* result that arrives afterwards stays in the channel: in every
\* interleaving the spans returned and the results received stay as they
\* were, nothing is taken from the channel, and once the text is forwarded
\* neither it nor the TokenMap nor the counter changes.
C28_LateResultNeverRead ==
    [][(rcPc \in {"returned", "forwarded"} =>
           (/\ rcAll' = rcAll
            /\ rcReceived' = rcReceived
            /\ Len(ch') >= Len(ch)
            /\ SubSeq(ch', 1, Len(ch)) = ch))
       /\ (rcPc = "forwarded" =>
              (/\ rcPc' = "forwarded"
               /\ rcOut' = rcOut
               /\ rcTm' = rcTm
               /\ rcCounter' = rcCounter))]_vars

\* NER's result was received, runClassifiers returned on the deadline and
\* the text was forwarded; the LLM's result, with spans, arrived afterwards
\* and lies in the channel, and what it found is not in the TokenMap.
C28_Witness ==
    /\ rcPc = "forwarded"
    /\ rcClassifiers = <<"ner", "llm">>
    /\ rcReceived = <<1>>
    /\ rcReturnedAt = rcStartedAt + classifierBudget
    /\ gor[1].outcome.spans = <<>>
    /\ gor[2].pc = "done"
    /\ Len(ch) = 1 /\ ch[1].from = 2 /\ ch[1].spans # <<>>
    /\ rcOut = rcText
    /\ IsEmpty(rcTm)

\* The goroutines that have sent their result.
sent == {i \in DOMAIN gor : gor[i].pc = "done"}

\* C40 (no goroutine blocks on its send): each goroutine sends one result;
\* the results sent are those received and those in the channel, never more
\* than the channel's capacity of one per classifier, so a goroutine that
\* is about to send finds room in the channel, also after runClassifiers
\* has returned on the deadline.
C40_SendNeverBlocks ==
    /\ Cardinality(sent) = Len(rcReceived) + Len(ch)
    /\ gor # <<>> =>
           /\ Cardinality(sent) <= chanCap(Len(rcClassifiers))
           /\ \A i \in DOMAIN gor :
                  gor[i].pc = "send" => Len(ch) < chanCap(Len(rcClassifiers))

\* runClassifiers returned on the deadline with nothing received; both
\* goroutines have sent since and their results fill the channel.
C40_Witness ==
    /\ rcPc \in {"returned", "forwarded"}
    /\ rcReturnedAt = rcStartedAt + classifierBudget
    /\ Len(rcClassifiers) = 2
    /\ rcReceived = <<>>
    /\ sent = {1, 2}
    /\ Len(ch) = 2

-----------------------------------------------------------------------------
(* The upstream dispatcher: Client.Do and Client.DoStream                  *)
(* (internal/upstream/client.go:136-230)                                   *)

\* for attempt := 0; attempt < 3; attempt++
maxAttempts == 3

\* Bounds: calls made on one client, wallets in the pool.
MaxCalls == 2
MaxWallets == 2

Endpoint(n) == [Address |-> <<"E", n>>, URL |-> <<"http://e", n>>]

\* A participant listed twice: the address of Endpoint(1) with another URL.
Endpoint1Again == [Address |-> Endpoint(1).Address, URL |-> <<"http://e", 5>>]

\* The endpoint tables of a client: the empty one of a client on which no
\* discovery has succeeded (New), and tables discovery may have installed;
\* discovery does not remove a participant that is listed twice.
EndpointTables ==
    { <<>>, <<Endpoint(1)>>, <<Endpoint(1), Endpoint(2)>>,
      <<Endpoint(1), Endpoint1Again, Endpoint(2)>>,
      <<Endpoint(1), Endpoint(2), Endpoint(3)>>,
      <<Endpoint(1), Endpoint(2), Endpoint(3), Endpoint(4)>> }

\* What one doWith / doWithNoTimeout may give: a transport error, or an HTTP
\* reply with a status; the body of a reply may fail to be read (Do only).
AttemptOutcomes ==
    {[kind |-> "error", status |-> 0, read |-> "nil"]} \cup
    {[kind |-> "reply", status |-> st, read |-> rd] :
        st \in {200, 404, 500}, rd \in {"nil", "read"}}

\* A choice among all the endpoints of the table, tried or not.
pickAnyEndpoint(eps, exclude) == {eps[n] : n \in DOMAIN eps}

\* pickEndpointExcluding, lines 136-154: the endpoints the random choice is
\* made among (none: the error of line 141).
pickEndpointExcluding(eps, exclude) ==
    LET candidates == {n \in DOMAIN eps : eps[n].Address \notin exclude}
    IN  IF candidates = {} THEN {eps[n] : n \in DOMAIN eps}
        ELSE {eps[n] : n \in candidates}

\* An increment that is lost: the counter is stored back unchanged.
counterStays(counter) == counter

\* Pool.Next, handler.go:349: the value p.counter.Add(1) leaves in the counter.  The counter
\* is a uint64; the calls made here stay far below 2^64.
counterAdd(counter) == counter + 1

\* Pool.Next, handler.go:348-351: the wallet for a counter value.
walletFor(counter, n) == counter % n

\* An attempt that is retried also on a reply with a server error.
retryOnServerError(outcome) == outcome.kind = "error" \/ outcome.status >= 500

\* Lines 197-201 / 222-226: err != nil sends the loop to its next iteration.
retryable(outcome) == outcome.kind = "error"

\* A loop that gives up after the second attempt.
twoAttempts(a) == a + 1 < 2

\* Line 189 / 214: attempt < 3 after attempt++, the loop has another turn.
anotherAttempt(a) == a + 1 < maxAttempts

\* A call of Do or DoStream begins: lines 187-188 / 212-213.
Call(mode) ==
    /\ dPc \in {"idle", "returned"}
    /\ dCalls < MaxCalls
    /\ dCalls' = dCalls + 1
    /\ dMode' = mode
    /\ dPc' = "loop"
    /\ attempt' = 0
    /\ tried' = {}
    /\ lastErr' = "nil"
    /\ dLog' = <<>>
    /\ dResult' = [reply |-> FALSE, status |-> 0, err |-> "nil"]
    /\ UNCHANGED <<endpoints, numWallets, poolCounter, dServed>>
    /\ UNCHANGED exceptDispatch

\* Lines 190-193 / 215-218 with an empty table: break, then line 206 / 229.
NoEndpoint ==
    /\ dPc = "loop"
    /\ endpoints = <<>>
    /\ dPc' = "returned"
    /\ dResult' = [reply |-> FALSE, status |-> 0, err |-> lastErr]
    /\ UNCHANGED <<endpoints, numWallets, poolCounter, dMode, attempt, tried, lastErr,
                   dLog, dCalls, dServed>>
    /\ UNCHANGED exceptDispatch

\* One iteration of the loop, lines 189-204 / 214-227: an endpoint, a
\* wallet, the request; a transport error continues the loop (which ends
\* after the third attempt, line 206 / 229), a reply is returned.
Attempt ==
    /\ dPc = "loop"
    /\ endpoints # <<>>
    /\ \E ep \in pickEndpointExcluding(endpoints, tried) :
       \E outcome \in AttemptOutcomes :
           /\ dMode = "DoStream" => outcome.read = "nil"
           /\ tried' = tried \cup {ep.Address}
           /\ poolCounter' = counterAdd(poolCounter)
           /\ dLog' = Append(dLog, [ep |-> ep.Address,
                                    wallet |-> walletFor(poolCounter, numWallets),
                                    outcome |-> outcome])
           /\ attempt' = attempt + 1
           /\ IF retryable(outcome)
              THEN /\ lastErr' = "transport"
                   /\ IF anotherAttempt(attempt)
                      THEN UNCHANGED <<dPc, dResult>>
                      ELSE /\ dPc' = "returned"
                           /\ dResult' = [reply |-> FALSE, status |-> 0, err |-> "transport"]
              ELSE /\ dPc' = "returned"
                   /\ dResult' = [reply |-> TRUE, status |-> outcome.status,
                                  err |-> outcome.read]
                   /\ UNCHANGED lastErr
           /\ dServed' = IF retryable(outcome) /\ anotherAttempt(attempt)
                         THEN dServed
                         ELSE Append(dServed, walletFor(poolCounter, numWallets))
    /\ UNCHANGED <<endpoints, numWallets, dMode, dCalls>>
    /\ UNCHANGED exceptDispatch

InitDispatch ==
    /\ endpoints \in EndpointTables
    /\ numWallets \in 1..MaxWallets
    /\ poolCounter = 0
    /\ dMode = "Do"
    /\ dPc = "idle"
    /\ attempt = 0
    /\ tried = {}
    /\ lastErr = "nil"
    /\ dLog = <<>>
    /\ dResult = [reply |-> FALSE, status |-> 0, err |-> "nil"]
    /\ dCalls = 0
    /\ dServed = <<>>
    /\ IdleStream /\ IdleRedact /\ IdleClassify /\ IdleHandler /\ IdlePool /\ IdleParse
    /\ IdleSpans
    /\ IdleRegister
    /\ IdleDiscover
    /\ IdleRewrite
    /\ IdleSign
    /\ IdleShape
    /\ IdleRequest
    /\ IdleRestore
    /\ IdleLlm

NextDispatch ==
    \/ \E mode \in {"Do", "DoStream"} : Call(mode)
    \/ NoEndpoint
    \/ Attempt

SpecDispatch ==
    InitDispatch /\ [][NextDispatch]_vars

\* C10 (an HTTP reply is never retried): in Do and DoStream the attempt that
\* obtains an HTTP reply, whatever its status, is the last attempt of the
\* call, and the call returns that reply.
C10_ReplyNeverRetried ==
    \A n \in DOMAIN dLog :
        dLog[n].outcome.kind = "reply" =>
            /\ n = Len(dLog)
            /\ dPc = "returned"
            /\ dResult.reply
            /\ dResult.status = dLog[n].outcome.status

\* E1 refused the connection, E2 answered 500: the caller has the 500 and
\* E3 was not contacted.
C10_Witness ==
    /\ dPc = "returned"
    /\ Len(endpoints) = 3
    /\ Len(dLog) = 2
    /\ dLog[1].outcome.kind = "error"
    /\ dLog[2].outcome.kind = "reply" /\ dLog[2].outcome.status = 500
    /\ dResult.reply /\ dResult.status = 500
    /\ Cardinality(tried) = 2

\* The attempts of the call that were answered by an HTTP reply.
replies == {n \in DOMAIN dLog : dLog[n].outcome.kind = "reply"}

\* What a returned call made of its attempts: never more than three, and a
\* transport failure is the last attempt only when it is the third.
attemptsWellFormed ==
    /\ Len(dLog) <= 3
    /\ \A n \in DOMAIN dLog :
           (dLog[n].outcome.kind = "error" /\ n < 3 /\ dPc = "returned")
               => n < Len(dLog)

\* C11 as stated (three attempts, errors only after three transport
\* failures): a call makes at most 3 attempts, a transport failure on
\* attempt 1 or 2 is followed by another attempt, the caller sees an error
\* only if all three attempts failed at transport level, and once an attempt
\* obtained an HTTP reply the caller gets that reply and no error.
C11_ReplyWithoutError ==
    /\ attemptsWellFormed
    /\ dPc = "returned" =>
          /\ dResult.err # "nil" =>
                 Len(dLog) = 3 /\ replies = {}
          /\ \A n \in replies :
                 /\ dResult.reply
                 /\ dResult.status = dLog[n].outcome.status
                 /\ dResult.err = "nil"

\* C11 (amended: the error of reading the reply's body): a call makes at
\* most 3 attempts, a transport failure on attempt 1 or 2 is followed by
\* another attempt, the caller sees a transport error only if all three
\* attempts failed at transport level, and once an attempt obtained an HTTP
\* reply the caller gets that reply's status, with no error from DoStream and
\* from Do no error but the one of reading that reply's body.
C11_ReplyOrBodyReadError ==
    /\ attemptsWellFormed
    /\ dPc = "returned" =>
          /\ dResult.err = "transport" =>
                 Len(dLog) = 3 /\ replies = {}
          /\ \A n \in replies :
                 /\ dResult.reply
                 /\ dResult.status = dLog[n].outcome.status
                 /\ dResult.err = dLog[n].outcome.read
                 /\ dMode = "DoStream" => dResult.err = "nil"

\* E1 and E2 refused the connection, E3 answered 200 and its body could not
\* be read: Do returns the status with the read error.
C11_Witness ==
    /\ dPc = "returned"
    /\ dMode = "Do"
    /\ Len(dLog) = 3
    /\ dLog[1].outcome.kind = "error" /\ dLog[2].outcome.kind = "error"
    /\ dLog[3].outcome = [kind |-> "reply", status |-> 200, read |-> "read"]
    /\ dResult = [reply |-> TRUE, status |-> 200, err |-> "read"]
    /\ Cardinality(tried) = 3

\* How many of the returned calls had wallet w on their last attempt.
callsServedBy(w) == Cardinality({n \in DOMAIN dServed : dServed[n] = w})

\* C13 (each request cycles to the next wallet): once K calls have returned
\* on a client with endpoints and N wallets, each wallet was the wallet of
\* floor(K/N) or ceil(K/N) of them, whatever the outcomes of their attempts.
C13_WalletPerRequest ==
    (dPc = "returned" /\ endpoints # <<>>) =>
        \A w \in 0..(numWallets - 1) :
            LET K == Len(dServed)
                floor == K \div numWallets
                ceil == (K + numWallets - 1) \div numWallets
            IN  callsServedBy(w) \in {floor, ceil}

\* The addresses of the endpoint table.
tableAddresses == {endpoints[i].Address : i \in DOMAIN endpoints}

\* The addresses the attempts before attempt n of the call went to.
triedBefore(n) == {dLog[k].ep : k \in 1..(n - 1)}

\* C30 (an untried endpoint first): within one call of Do or DoStream every
\* attempt goes to an endpoint of the table whose address no earlier attempt
\* of the call went to, whenever the table has such an endpoint; an address
\* is tried again only when every address of the table has been tried.
C30_UntriedFirst ==
    /\ tried = {dLog[k].ep : k \in DOMAIN dLog}
    /\ \A n \in DOMAIN dLog :
           /\ dLog[n].ep \in tableAddresses
           /\ tableAddresses \ triedBefore(n) # {} => dLog[n].ep \notin triedBefore(n)
           /\ dLog[n].ep \in triedBefore(n) => tableAddresses \subseteq triedBefore(n)

\* The table lists E1 twice and E2 once; E1 refused the connection, the
\* second attempt went to E2, which refused too, and the third, with both
\* addresses tried, went to E1 again.
C30_Witness ==
    /\ dPc = "returned"
    /\ endpoints = <<Endpoint(1), Endpoint1Again, Endpoint(2)>>
    /\ Len(dLog) = 3
    /\ dLog[1].ep = Endpoint(1).Address
    /\ dLog[2].ep = Endpoint(2).Address
    /\ dLog[3].ep = Endpoint(1).Address
    /\ \A n \in 1..3 : dLog[n].outcome.kind = "error"
    /\ dResult.err = "transport"

\* C39 (an error whenever there is no response): a call of Do or DoStream
\* that returns no upstream reply returns a non-nil error, with the empty
\* endpoint table too, so that the handler, which tests only the error,
\* never goes on with status 0 or with a nil response.
C39_ErrorWhenNoResponse ==
    (dPc = "returned" /\ ~dResult.reply) =>
        /\ dResult.err # "nil"
        /\ dResult.status = 0

-----------------------------------------------------------------------------
(* The wallet pool under concurrent callers: Pool.Next                     *)
(* (internal/api/handler.go:326-351)                                       *)

\* Bounds: goroutines calling Next, and calls of Next issued in all.
MaxGoroutines == 3
MaxNextCalls == 4

\* The calls that were issued: returned, or between lines 349 and 350.
nextIssued ==
    Len(nextLog) + Cardinality({g \in DOMAIN nextPc : nextPc[g] = "added"})

\* Line 349: idx := p.counter.Add(1) - 1, one atomic read-modify-write.
NextAdd(g) ==
    /\ nextPc[g] \in {"idle", "returned"}
    /\ nextIssued < MaxNextCalls
    /\ poolCounter' = counterAdd(poolCounter)
    /\ nextIdx' = [nextIdx EXCEPT ![g] = counterAdd(poolCounter) - 1]
    /\ nextPc' = [nextPc EXCEPT ![g] = "added"]
    /\ UNCHANGED <<nextLog, endpoints, numWallets, dMode, dPc, attempt, tried, lastErr,
                   dLog, dResult, dCalls, dServed>>
    /\ UNCHANGED exceptPool

\* Line 350: return &p.wallets[idx%uint64(len(p.wallets))].
NextReturn(g) ==
    /\ nextPc[g] = "added"
    /\ nextLog' = Append(nextLog, [idx |-> nextIdx[g],
                                   wallet |-> walletFor(nextIdx[g], numWallets)])
    /\ nextPc' = [nextPc EXCEPT ![g] = "returned"]
    /\ UNCHANGED <<nextIdx, dispatchVars>>
    /\ UNCHANGED exceptPool

\* NewPool, lines 335-344: at least one wallet, the counter at zero.
InitPool ==
    /\ numWallets \in 1..MaxWallets
    /\ poolCounter = 0
    /\ nextPc = [g \in 1..MaxGoroutines |-> "idle"]
    /\ nextIdx = [g \in 1..MaxGoroutines |-> 0]
    /\ nextLog = <<>>
    /\ endpoints = <<>> /\ dMode = "Do" /\ dPc = "idle" /\ attempt = 0 /\ tried = {}
    /\ lastErr = "nil" /\ dLog = <<>>
    /\ dResult = [reply |-> FALSE, status |-> 0, err |-> "nil"] /\ dCalls = 0
    /\ dServed = <<>>
    /\ IdleStream /\ IdleRedact /\ IdleClassify /\ IdleHandler /\ IdleParse
    /\ IdleSpans
    /\ IdleRegister
    /\ IdleDiscover
    /\ IdleRewrite
    /\ IdleSign
    /\ IdleShape
    /\ IdleRequest
    /\ IdleRestore
    /\ IdleLlm

NextPool ==
    \E g \in 1..MaxGoroutines : NextAdd(g) \/ NextReturn(g)

SpecPool ==
    InitPool /\ [][NextPool]_vars

\* How many of the returned calls got wallet w.
timesReturned(w) == Cardinality({n \in DOMAIN nextLog : nextLog[n].wallet = w})

\* C12 (wallet round-robin under concurrency): no two calls of Pool.Next
\* consume the same counter value, the call that obtains counter value i gets
\* wallet i mod N, and once the K calls issued have all returned each of the
\* N wallets was returned floor(K/N) or ceil(K/N) times.
C12_RoundRobin ==
    /\ \A m, n \in DOMAIN nextLog : nextLog[m].idx = nextLog[n].idx => m = n
    /\ \A g, h \in DOMAIN nextPc :
           (g # h /\ nextPc[g] = "added" /\ nextPc[h] = "added")
               => nextIdx[g] # nextIdx[h]
    /\ \A g \in DOMAIN nextPc : \A n \in DOMAIN nextLog :
           nextPc[g] = "added" => nextIdx[g] # nextLog[n].idx
    /\ \A n \in DOMAIN nextLog : nextLog[n].wallet = nextLog[n].idx % numWallets
    /\ nextIssued = Len(nextLog) =>
           \A w \in 0..(numWallets - 1) :
               LET K == Len(nextLog)
                   floor == K \div numWallets
                   ceil == (K + numWallets - 1) \div numWallets
               IN  timesReturned(w) \in {floor, ceil}

\* Two wallets, three calls: the call that took counter
\* value 1 returned before the call that took 0, and wallet 0 was returned
\* twice, wallet 1 once.
C12_Witness ==
    /\ numWallets = 2
    /\ Len(nextLog) = 3 /\ nextIssued = 3
    /\ nextLog[1].idx = 1 /\ nextLog[2].idx = 0
    /\ timesReturned(0) = 2 /\ timesReturned(1) = 1

-----------------------------------------------------------------------------
(* The request handler: chatCompletions and its three response paths       *)
(* (internal/api/handler.go:96-255)                                        *)

\* buf := make([]byte, 4096)
streamBufLen == 4096

HasSuffix(s, p) == Len(s) >= Len(p) /\ SliceFrom(s, Len(s) - Len(p)) = p

\* An upstream reply whose content is a call of the tool f, up to the
\* arguments: {"choices":[{"message":{"content":"{\"name\":\"f\",\"arguments\":
callOpen ==
    <<123, 34, 99, 104, 111, 105, 99, 101, 115, 34, 58, 91, 123, 34, 109,
      101, 115, 115, 97, 103, 101, 34, 58, 123, 34, 99, 111, 110, 116, 101,
      110, 116, 34, 58, 34, 123, 92, 34, 110, 97, 109, 101, 92, 34, 58, 92,
      34, 102, 92, 34, 44, 92, 34, 97, 114, 103, 117, 109, 101, 110, 116,
      115, 92, 34, 58>>

\* ... and after them: }"}}]}
callClose ==
    <<125, 34, 125, 125, 93, 125>>

\* The arguments of the call, around the value of k: {\"k\":\"
argsOpen ==
    <<123, 92, 34, 107, 92, 34, 58, 92, 34>>

\* ... \"}
argsClose ==
    <<92, 34, 125>>

\* ParseResponse's rewritten reply (json.Marshal, keys sorted), up to the
\* call id: {"choices":[{"finish_reason":"tool_calls","message":{"content":null,"role":"assistant","tool_calls":[{"id":"call_
rewrittenOpen ==
    <<123, 34, 99, 104, 111, 105, 99, 101, 115, 34, 58, 91, 123, 34, 102,
      105, 110, 105, 115, 104, 95, 114, 101, 97, 115, 111, 110, 34, 58, 34,
      116, 111, 111, 108, 95, 99, 97, 108, 108, 115, 34, 44, 34, 109, 101,
      115, 115, 97, 103, 101, 34, 58, 123, 34, 99, 111, 110, 116, 101, 110,
      116, 34, 58, 110, 117, 108, 108, 44, 34, 114, 111, 108, 101, 34, 58,
      34, 97, 115, 115, 105, 115, 116, 97, 110, 116, 34, 44, 34, 116, 111,
      111, 108, 95, 99, 97, 108, 108, 115, 34, 58, 91, 123, 34, 105, 100, 34,
      58, 34, 99, 97, 108, 108, 95>>

\* ... from the call id to the arguments: ","type":"function","function":{"name":"f","arguments":"
rewrittenMid ==
    <<34, 44, 34, 116, 121, 112, 101, 34, 58, 34, 102, 117, 110, 99, 116,
      105, 111, 110, 34, 44, 34, 102, 117, 110, 99, 116, 105, 111, 110, 34,
      58, 123, 34, 110, 97, 109, 101, 34, 58, 34, 102, 34, 44, 34, 97, 114,
      103, 117, 109, 101, 110, 116, 115, 34, 58, 34>>

\* ... and after the arguments: "}}]}}]}
rewrittenClose ==
    <<34, 125, 125, 93, 125, 125, 93, 125>>

\* The body writeErr sends: {"error":"upstream error"}
errorBody ==
    <<123, 34, 101, 114, 114, 111, 114, 34, 58, 34, 117, 112, 115, 116, 114,
      101, 97, 109, 32, 101, 114, 114, 111, 114, 34, 125>>

\* generateToolCallID: 12 random bytes in hex; all zeros and all f here.
ToolCallIDs == {[i \in 1..24 |-> 48], [i \in 1..24 |-> 102]}

\* The upstream reply that calls f with the value v for k.
toolCallReply(v) == callOpen \o argsOpen \o v \o argsClose \o callClose

\* Upstream bodies with lead plain bytes, a placeholder of id k (none for
\* k = 0) and trail plain bytes.
UpstreamBodies(leads, trails) ==
    {Letters(lead, 0) \o (IF k = 0 THEN <<>> ELSE placeholderFor(k)) \o Letters(trail, lead) :
        lead \in leads, k \in 0..2, trail \in trails}

\* The bodies upstream answers a chat request with.
Replies ==
    UpstreamBodies({0, MaxLead}, {0, 1, MaxTrail})
        \cup {toolCallReply(placeholderFor(1)), toolCallReply(<<120>>)}

\* The client's requests, as RedactMessages left them: the tools field
\* (none, an empty array, the tool f, the tool g, or elements that are not
\* tool objects) and the stream flag; and a body that is not JSON, in which
\* neither field can be read.
Requests ==
    [tools : {"none", "empty", "f", "g", "bad"}, stream : BOOLEAN]
        \cup {[tools |-> "notjson", stream |-> FALSE]}

\* What Do / DoStream return to the handler: an error, or a reply's status.
UpstreamResults ==
    {[kind |-> "error", status |-> 0]} \cup {[kind |-> "reply", status |-> st] : st \in {200, 500}}

\* The sizes of the reads the upstream body delivers what remains of it in:
\* nothing, a byte, just over the holdback, or all of it.
SourceReads(remaining) ==
    {n \in 0..remaining : n \in {0, 1, holdBack + 1, remaining}}

\* toolsim.NeedsSimulation, toolsim.go:68-77: the body unmarshals and
\* len(peek.Tools) > 0.
NeedsSimulation(req) == req.tools \notin {"notjson", "none", "empty"}

\* A rewrite that leaves the client's stream flag in the body.
rewriteKeepsStream(req) ==
    [err |-> req.tools = "bad", stream |-> req.stream]

\* toolsim.RewriteRequest, toolsim.go:82-150, as far as the handler depends
\* on it: the error of unmarshalling the tools (line 92), and the stream
\* field of the new body (line 141).
RewriteRequest(req) ==
    [err |-> req.tools = "bad", stream |-> FALSE]

\* ParseResponse, toolsim.go:156-223, on the bytes of these bodies (its
\* model on JSON documents is further down): a reply whose content
\* calls a declared tool is rewritten, with a fresh call id; a body that is
\* not JSON, or calls no declared tool, is returned as it is.
ParseResponseBytes(respBody, tools) ==
    IF tools = "f" /\ HasPrefix(respBody, callOpen) /\ HasSuffix(respBody, callClose)
    THEN {rewrittenOpen \o id \o rewrittenMid
              \o Slice(respBody, Len(callOpen), Len(respBody) - Len(callClose))
              \o rewrittenClose : id \in ToolCallIDs}
    ELSE {respBody}

\* Sanitizer.RestoreBytes, sanitize.go:381-386.
RestoreBytes(respBody, m) == IF IsEmpty(m) THEN {respBody} ELSE Restore(m, respBody)

\* chatCompletions, lines 113-131: the path a request takes.
route(req, simulate) ==
    IF simulate /\ NeedsSimulation(req) THEN "toolsim"
    ELSE IF req.stream THEN "stream" ELSE "buffered"

\* What the client has when the handler returns without streaming.
respond(status, header, body) ==
    /\ hStatus' = status
    /\ hHeader' = header
    /\ clientOut' = body
    /\ hPc' = "done"

\* nonStreamResponse, lines 182-199.
NonStreamResponse ==
    /\ hPc = "received"
    /\ route(hReq, hSimulate) = "buffered"
    /\ hPath' = "buffered"
    /\ hCalls' = Append(hCalls, [fn |-> "Do", stream |-> hReq.stream])
    /\ \E up \in UpstreamResults :
           /\ hUp' = up
           /\ IF up.kind = "error"
              THEN /\ respond(502, FALSE, errorBody)
                   /\ UNCHANGED upstream
              ELSE \E body \in Replies : \E out \in RestoreBytes(body, hTm) :
                       /\ upstream' = body
                       /\ respond(up.status, ~IsEmpty(hTm), out)
    /\ UNCHANGED <<srcPos, rrBuf, rrSrcEOF, rrTm, lastChunk, readErr>>
    /\ UNCHANGED <<hReq, hSimulate, hTm, hWriteErr, hRespBody>>
    /\ UNCHANGED exceptHandler

\* toolSimResponse, lines 136-180.
ToolSimResponse ==
    /\ hPc = "received"
    /\ route(hReq, hSimulate) = "toolsim"
    /\ hPath' = "toolsim"
    /\ IF RewriteRequest(hReq).err
       THEN \* RewriteRequest fails: lines 138-142
            /\ respond(400, FALSE, errorBody)
            /\ UNCHANGED <<hCalls, hUp, upstream>>
       ELSE /\ hCalls' = Append(hCalls, [fn |-> "Do",
                                         stream |-> RewriteRequest(hReq).stream])
            /\ \E up \in UpstreamResults :
                   /\ hUp' = up
                   /\ IF up.kind = "error"
                      THEN /\ respond(502, FALSE, errorBody)
                           /\ UNCHANGED upstream
                      ELSE \E body \in Replies :
                               /\ upstream' = body
                               /\ IF up.status >= 400
                                  THEN respond(up.status, FALSE, body)
                                  ELSE \E result \in ParseResponseBytes(body, hReq.tools) :
                                       \E out \in RestoreBytes(result, hTm) :
                                           respond(200, ~IsEmpty(hTm), out)
    /\ UNCHANGED <<srcPos, rrBuf, rrSrcEOF, rrTm, lastChunk, readErr>>
    /\ UNCHANGED <<hReq, hSimulate, hTm, hWriteErr, hRespBody>>
    /\ UNCHANGED exceptHandler

\* A handler that returns and leaves resp.Body as it is.
leftAsItIs(body) == body

\* Line 208: defer resp.Body.Close(), run when streamResponse returns.
deferredClose(body) == "closed"

\* streamResponse up to the read loop, lines 201-233.
StreamResponse ==
    /\ hPc = "received"
    /\ route(hReq, hSimulate) = "stream"
    /\ hPath' = "stream"
    /\ hCalls' = Append(hCalls, [fn |-> "DoStream", stream |-> hReq.stream])
    /\ \E up \in UpstreamResults :
           /\ hUp' = up
           /\ IF up.kind = "error"
              THEN /\ respond(502, FALSE, errorBody)
                   /\ UNCHANGED <<upstream, rrTm, hRespBody>>
              ELSE \E body \in Replies :
                       /\ upstream' = body
                       /\ IF up.status >= 400
                          THEN /\ respond(up.status, FALSE, body)
                               /\ hRespBody' = deferredClose("open")
                               /\ UNCHANGED rrTm
                          ELSE /\ hStatus' = 200
                               /\ hHeader' = ~IsEmpty(hTm)
                               /\ rrTm' = hTm
                               /\ hPc' = "streaming"
                               /\ hRespBody' = "open"
                               /\ UNCHANGED clientOut
    /\ UNCHANGED <<srcPos, rrBuf, rrSrcEOF, lastChunk, readErr>>
    /\ UNCHANGED <<hReq, hSimulate, hTm, hWriteErr>>
    /\ UNCHANGED exceptHandler

\* Lines 238-253: the chunk of this iteration is written to the client,
\* which may fail, and the loop ends on a write error or a read error.
afterRead ==
    /\ hWriteErr' \in (IF Len(lastChunk') > 0 THEN BOOLEAN ELSE {FALSE})
    /\ hPc' = IF hWriteErr' \/ readErr' # "nil" THEN "done" ELSE "streaming"
    /\ hRespBody' = IF hWriteErr' \/ readErr' # "nil" THEN deferredClose(hRespBody)
                    ELSE hRespBody
    /\ UNCHANGED <<hReq, hSimulate, hTm, hPath, hUp, hCalls, hStatus, hHeader>>
    /\ UNCHANGED exceptHandler

\* One iteration of the loop at lines 236-254, reading through the
\* RestoringReader.
StreamRead ==
    /\ hPc = "streaming"
    /\ NewRestoringReader(hTm)
    /\ \/ ReadDrain(streamBufLen)
       \/ ReadEOF
       \/ \E n \in SourceReads(Len(upstream) - srcPos) :
          \E srcErr \in {"nil", "EOF", "err"} :
              ReadSource(streamBufLen, n, srcErr)
    /\ afterRead

\* One iteration of the same loop when NewRestoringReader returned the
\* upstream body itself (empty TokenMap).
StreamPassThrough ==
    /\ hPc = "streaming"
    /\ ~NewRestoringReader(hTm)
    /\ \E n \in SourceReads(Len(upstream) - srcPos) :
       \E srcErr \in {"nil", "EOF", "err"} :
           /\ srcErr = "nil" => n > 0
           /\ srcErr = "EOF" => srcPos + n = Len(upstream)
           /\ srcPos' = srcPos + n
           /\ lastChunk' = Slice(upstream, srcPos, srcPos + n)
           /\ clientOut' = clientOut \o lastChunk'
           /\ readErr' = srcErr
    /\ UNCHANGED <<upstream, rrBuf, rrSrcEOF, rrTm>>
    /\ afterRead

InitHandler ==
    /\ hPc = "received"
    /\ hReq \in Requests
    /\ hSimulate \in BOOLEAN
    /\ hTm \in {newTokenMap, StreamTokenMap}
    /\ hPath = "none"
    /\ hUp = [kind |-> "none", status |-> 0]
    /\ hCalls = <<>>
    /\ hStatus = 0
    /\ hHeader = FALSE
    /\ hWriteErr = FALSE
    /\ hRespBody = "none"
    /\ IdleStream /\ IdleRedact /\ IdleClassify /\ IdleDispatch /\ IdlePool /\ IdleParse
    /\ IdleSpans
    /\ IdleRegister
    /\ IdleDiscover
    /\ IdleRewrite
    /\ IdleSign
    /\ IdleShape
    /\ IdleRequest
    /\ IdleRestore
    /\ IdleLlm

NextHandler ==
    \/ NonStreamResponse
    \/ ToolSimResponse
    \/ StreamResponse
    \/ StreamRead
    \/ StreamPassThrough

SpecHandler ==
    InitHandler /\ [][NextHandler]_vars

\* The handler has delivered a whole successful upstream response for a
\* request with redactions.
deliveredSuccess ==
    /\ hPc = "done"
    /\ ~IsEmpty(hTm)
    /\ hUp.kind = "reply" /\ hUp.status < 400
    /\ ~hWriteErr
    /\ hPath = "stream" => readErr = "EOF"

\* C3 (round trip): for a request in which placeholders were produced and a
\* successful upstream response, the bytes delivered to the client contain
\* no placeholder of the request's TokenMap, on the buffered, the
\* tool-simulation and the streaming path.
C3_NoPlaceholderReachesClient ==
    deliveredSuccess =>
        \A tok \in DOMAIN hTm.fromToken : ~Contains(clientOut, tok)

\* C14 (redaction header): every response to a request whose TokenMap has
\* entries carries X-Sanitize-Redactions, on the buffered, streaming and
\* tool-simulation paths and whatever the upstream outcome, and the header
\* is absent exactly when nothing was redacted.
C14_HeaderIffRedacted ==
    hStatus # 0 => (hHeader <=> ~IsEmpty(hTm))

C18_ErrorReplyVerbatim ==
    (hPc = "done" /\ hUp.kind = "reply" /\ hUp.status >= 400) =>
        /\ hStatus = hUp.status
        /\ clientOut = upstream

\* C36 (the upstream body is closed): whenever streamResponse returns
\* after DoStream gave it a response (at EOF, on an upstream read error, on
\* a client write error or on a status of 400 or more) resp.Body has been
\* closed, and once a write to the client has failed no byte is read from
\* upstream any more.
C36_BodyClosedOnExit ==
    [][((hPc' = "done" /\ hPath' = "stream" /\ hUp'.kind = "reply") =>
            hRespBody' = "closed")
       /\ (hPc' # "done" => ~hWriteErr')
       /\ (hWriteErr => (srcPos' = srcPos /\ hRespBody' = "closed"))]_vars

\* The client went away while the stream was being delivered: the handler
\* has returned, the upstream body is closed and part of it was never read.
C36_Witness ==
    /\ hPc = "done"
    /\ hPath = "stream"
    /\ hUp = [kind |-> "reply", status |-> 200]
    /\ hWriteErr
    /\ readErr = "nil"
    /\ srcPos < Len(upstream)
    /\ hRespBody = "closed"

-----------------------------------------------------------------------------
(* toolsim.ParseResponse on JSON documents                                 *)
(* (internal/toolsim/toolsim.go:156-223, 309-405)                          *)

\* Bound: the elements of the array a model's reply holds.
MaxReplyCalls == 2

\* JSON values.  An array holds its elements as members with empty keys, an
\* object its members in the order of the text.  A string is a plain word
\* (s), or the pieces of its text (a) when the text is looked into.
Member(k, v) == [k |-> k, v |-> v]
JNull == [t |-> "null", s |-> "", a |-> <<>>]
JNum == [t |-> "num", s |-> "1", a |-> <<>>]
JStr(w) == [t |-> "str", s |-> w, a |-> <<>>]
JArr(elems) ==
    [t |-> "arr", s |-> "", a |-> [n \in DOMAIN elems |-> Member("", elems[n])]]
JObj(members) == [t |-> "obj", s |-> "", a |-> members]

\* A text is a sequence of pieces: white space, prose (no JSON, no
\* bracket), a line of three backquotes, or the text of a JSON value.
Space == Member("space", JNull)
Prose == Member("prose", JNull)
Fence == Member("fence", JNull)
Json(v) == Member("json", v)

\* The string whose text is these pieces, and the text of a string.
JText(pieces) == [t |-> "str", s |-> "", a |-> pieces]
textOf(v) == IF v.s # "" THEN <<Prose>> ELSE v.a

\* m[k] of a Go map decoded from the members of an object: the last member
\* with the key wins.
Has(members, k) == \E n \in DOMAIN members : members[n].k = k
Get(members, k) ==
    members[CHOOSE n \in DOMAIN members :
                /\ members[n].k = k
                /\ \A j \in DOMAIN members : members[j].k = k => j <= n].v

\* m[k] = v.
Set(members, k, v) ==
    IF Has(members, k)
    THEN [n \in DOMAIN members |->
             IF members[n].k = k THEN Member(k, v) ELSE members[n]]
    ELSE Append(members, Member(k, v))

\* strings.TrimSpace.
RECURSIVE TrimLeftSpace(_)
TrimLeftSpace(text) ==
    IF text # <<>> /\ Head(text) = Space THEN TrimLeftSpace(Tail(text)) ELSE text

RECURSIVE TrimRightSpace(_)
TrimRightSpace(text) ==
    IF text # <<>> /\ text[Len(text)] = Space
    THEN TrimRightSpace(SubSeq(text, 1, Len(text) - 1))
    ELSE text

TrimSpaceText(text) == TrimRightSpace(TrimLeftSpace(text))

\* encoding/json on a text: it is one JSON value, white space around it
\* allowed, or the text is invalid.
parseJSON(text) ==
    LET t == TrimSpaceText(text)
    IN  IF Len(t) = 1 /\ t[1].k = "json"
        THEN [ok |-> TRUE, v |-> t[1].v]
        ELSE [ok |-> FALSE, v |-> JNull]

\* json.Unmarshal of a value into a map[string]json.RawMessage: an object
\* gives its members, null leaves the map nil, anything else is an error.
unmarshalMap(v) ==
    CASE v.t = "obj"  -> [ok |-> TRUE, nil |-> FALSE, m |-> v.a]
      [] v.t = "null" -> [ok |-> TRUE, nil |-> TRUE, m |-> <<>>]
      [] OTHER        -> [ok |-> FALSE, nil |-> TRUE, m |-> <<>>]

\* ... into a []map[string]json.RawMessage.
unmarshalMaps(v) ==
    CASE v.t = "arr" ->
            [ok |-> \A n \in DOMAIN v.a : unmarshalMap(v.a[n].v).ok,
             e |-> [n \in DOMAIN v.a |-> unmarshalMap(v.a[n].v)]]
      [] v.t = "null" -> [ok |-> TRUE, e |-> <<>>]
      [] OTHER -> [ok |-> FALSE, e |-> <<>>]

\* ... into a string: null leaves it empty.
unmarshalString(v) ==
    CASE v.t = "str"  -> [ok |-> TRUE, text |-> textOf(v)]
      [] v.t = "null" -> [ok |-> TRUE, text |-> <<>>]
      [] OTHER        -> [ok |-> FALSE, text |-> <<>>]

\* ... into struct{Name string; Arguments json.RawMessage}, lines 323-326:
\* Arguments keeps the raw value, null included, and stays empty when the
\* member is missing.
unmarshalCall(v) ==
    CASE v.t = "obj" ->
            LET name == IF Has(v.a, "name") THEN Get(v.a, "name") ELSE JNull
            IN  [ok |-> name.t \in {"str", "null"},
                 Name |-> IF name.t = "str" THEN name.s ELSE "",
                 hasArgs |-> Has(v.a, "arguments"),
                 Arguments |-> IF Has(v.a, "arguments")
                               THEN Get(v.a, "arguments") ELSE JNull]
      [] v.t = "null" ->
            [ok |-> TRUE, Name |-> "", hasArgs |-> FALSE, Arguments |-> JNull]
      [] OTHER ->
            [ok |-> FALSE, Name |-> "", hasArgs |-> FALSE, Arguments |-> JNull]

\* ... into the slice of these structs.
unmarshalCalls(v) ==
    CASE v.t = "arr" ->
            [ok |-> \A n \in DOMAIN v.a : unmarshalCall(v.a[n].v).ok,
             calls |-> [n \in DOMAIN v.a |-> unmarshalCall(v.a[n].v)]]
      [] v.t = "null" -> [ok |-> TRUE, calls |-> <<>>]
      [] OTHER -> [ok |-> FALSE, calls |-> <<>>]

\* stripCodeFences, lines 387-399: a text that begins with a fence loses
\* that line, and then everything from its last fence on.
stripCodeFences(text) ==
    IF text # <<>> /\ Head(text) = Fence
    THEN LET rest == Tail(text)
             fences == {n \in DOMAIN rest : rest[n] = Fence}
         IN  IF fences = {} THEN rest
             ELSE SubSeq(rest, 1, (CHOOSE n \in fences : \A j \in fences : j <= n) - 1)
    ELSE text

\* The outermost arrays of a value, in the order of the text.
RECURSIVE topArrays(_)
topArrays(v) ==
    CASE v.t = "arr" -> <<v>>
      [] v.t = "obj" -> Flatten([n \in DOMAIN v.a |-> topArrays(v.a[n].v)])
      [] OTHER -> <<>>

\* Lines 348-351: content[start:end+1] from the first "[" to the last "]",
\* parsed: found is false when the text has no bracket.
bracketSubstring(text) ==
    LET arrays == Flatten([n \in DOMAIN text |->
                              IF text[n].k = "json" THEN topArrays(text[n].v) ELSE <<>>])
    IN  [found |-> arrays # <<>>,
         parsed |-> IF Len(arrays) = 1 THEN [ok |-> TRUE, v |-> arrays[1]]
                    ELSE [ok |-> FALSE, v |-> JNull]]

\* A filter that keeps the calls of undeclared tools.
keepEveryCall(name, tools) == TRUE

\* Lines 317-320, 330: validNames[c.Name].
validNames(name, tools) == \E n \in DOMAIN tools : tools[n] = name

\* Lines 333-340: args is "{}" when the raw value is empty or null.
parsedToolCall(c) ==
    [Name |-> c.Name,
     Arguments |-> IF ~c.hasArgs \/ c.Arguments.t = "null" THEN JObj(<<>>)
                   ELSE c.Arguments]

\* The loops at lines 329-341 and 354-366.
validCalls(calls, tools) ==
    LET kept == SelectSeq(calls, LAMBDA c : validNames(c.Name, tools))
    IN  [n \in DOMAIN kept |-> parsedToolCall(kept[n])]

\* extractToolCalls, lines 309-385.
extractToolCalls(content, tools) ==
    LET text == TrimSpaceText(stripCodeFences(TrimSpaceText(content)))
        whole == parseJSON(text)
        asArray == IF whole.ok THEN unmarshalCalls(whole.v)
                   ELSE [ok |-> FALSE, calls |-> <<>>]
        sub == bracketSubstring(text)
        embedded == IF sub.found /\ sub.parsed.ok THEN unmarshalCalls(sub.parsed.v)
                    ELSE [ok |-> FALSE, calls |-> <<>>]
        single == IF whole.ok THEN unmarshalCall(whole.v)
                  ELSE [ok |-> FALSE, Name |-> "", hasArgs |-> FALSE, Arguments |-> JNull]
    IN  IF asArray.ok /\ Len(asArray.calls) > 0
           /\ validCalls(asArray.calls, tools) # <<>>
        THEN validCalls(asArray.calls, tools)
        ELSE IF embedded.ok /\ Len(embedded.calls) > 0
        THEN validCalls(embedded.calls, tools)
        ELSE IF single.ok /\ single.Name # "" /\ validNames(single.Name, tools)
        THEN <<parsedToolCall(single)>>
        ELSE <<>>

\* generateToolCallID, lines 401-405: "call_" and 12 random bytes in hex;
\* two of the values here.
ToolCallIDStrings == {"call_000000000000000000000000", "call_ffffffffffffffffffffffff"}

\* Lines 196-203: the ToolCallMsg of a call, marshalled.
ToolCallMsg(id, tc) ==
    JObj(<<Member("id", JStr(id)),
           Member("type", JStr("function")),
           Member("function",
                  JObj(<<Member("name", JStr(tc.Name)),
                         Member("arguments", JText(<<Json(tc.Arguments)>>))>>))>>)

\* json.Marshal of a map[string]json.RawMessage: a nil map gives null.
marshalMap(m) == IF m.nil THEN JNull ELSE JObj(m.m)

\* What ParseResponse does with a body: it returns a body, or the
\* goroutine panics.
Returned(body) == [kind |-> "returned", body |-> body]
Panics == [kind |-> "panic", body |-> <<>>]

\* ParseResponse, lines 156-223: the results it may give, one per choice of
\* the random call ids.
ParseResponse(respBody, tools) ==
    LET doc == parseJSON(respBody)
        resp == IF doc.ok THEN unmarshalMap(doc.v)
                ELSE [ok |-> FALSE, nil |-> TRUE, m |-> <<>>]
        hasChoices == Has(resp.m, "choices")
        choices == IF hasChoices THEN unmarshalMaps(Get(resp.m, "choices"))
                   ELSE [ok |-> TRUE, e |-> <<>>]
    IN  IF ~resp.ok THEN {Returned(respBody)}                      \* 158-160
        ELSE IF hasChoices /\ (~choices.ok \/ Len(choices.e) = 0)
        THEN {Returned(respBody)}                                  \* 163-167
        ELSE IF Len(choices.e) = 0 THEN {Panics}                   \* choices[0], 171
        ELSE
        LET first == choices.e[1].m
            msg == IF Has(first, "message") THEN unmarshalMap(Get(first, "message"))
                   ELSE [ok |-> TRUE, nil |-> TRUE, m |-> <<>>]
            content == IF Has(msg.m, "content")
                       THEN unmarshalString(Get(msg.m, "content"))
                       ELSE [ok |-> TRUE, text |-> <<>>]
            toolCalls == extractToolCalls(content.text, tools)
        IN  IF ~msg.ok THEN {Returned(respBody)}                   \* 171-175
            ELSE IF ~content.ok THEN {Returned(respBody)}          \* 179-183
            ELSE IF Len(toolCalls) = 0 THEN {Returned(respBody)}   \* 186-189
            ELSE
            { LET toolCallMsgs == [n \in DOMAIN toolCalls |->
                                      ToolCallMsg(ids[n], toolCalls[n])]
                  newMsg == Set(Set(Set(msg.m, "role", JStr("assistant")),
                                    "content", JNull),
                                "tool_calls", JArr(toolCallMsgs))
                  newFirst == Set(Set(first, "message", JObj(newMsg)),
                                  "finish_reason", JStr("tool_calls"))
                  newChoices == [n \in DOMAIN choices.e |->
                                    IF n = 1 THEN JObj(newFirst)
                                    ELSE marshalMap(choices.e[n])]
              IN  Returned(<<Json(JObj(Set(resp.m, "choices", JArr(newChoices))))>>)
              : ids \in [DOMAIN toolCalls -> ToolCallIDStrings] }

\* The calls a model's reply is made of: f with arguments, without, with
\* null arguments; g; and f with arguments that hold an array of their own.
fArgs == JObj(<<Member("k", JStr("v"))>>)
callF == JObj(<<Member("name", JStr("f")), Member("arguments", fArgs)>>)
callFNoArgs == JObj(<<Member("name", JStr("f"))>>)
callFNullArgs == JObj(<<Member("name", JStr("f")), Member("arguments", JNull)>>)
callG == JObj(<<Member("name", JStr("g")), Member("arguments", JObj(<<>>))>>)
callFList ==
    JObj(<<Member("name", JStr("f")),
           Member("arguments", JObj(<<Member("items", JArr(<<callG>>))>>))>>)

\* The JSON values a model's reply may hold: arrays of calls, of null and of
\* numbers, and single calls.
ReplyDocs ==
    {JArr(es) : es \in SeqsUpTo({callF, callFNoArgs, callFNullArgs, callG, JNull, JNum},
                                MaxReplyCalls)}
        \cup {callF, callFNoArgs, callG, callFList}

\* The texts of the content of a reply: prose, nothing, and a value on its
\* own, in white space, in code fences, and inside prose.
ReplyTexts ==
    {<<>>, <<Prose>>}
        \cup UNION {{<<Json(d)>>, <<Space, Json(d), Space>>, <<Fence, Json(d), Fence>>,
                     <<Prose, Json(d), Prose>>, <<Prose, Fence, Json(d), Fence>>}
                    : d \in ReplyDocs}

\* An upstream response with one choice, from the members of its message.
responseWith(message) ==
    JObj(<<Member("model", JStr("m")),
           Member("choices",
                  JArr(<<JObj(<<Member("message", message),
                                Member("finish_reason", JStr("stop"))>>)>>))>>)

\* The upstream bodies: a chat completion for every content, and the bodies
\* that are not one: no JSON, no object, no choices, no message, no content.
ResponseBodies ==
    {<<Json(responseWith(JObj(<<Member("role", JStr("assistant")),
                                Member("content", JText(text))>>)))>> :
        text \in ReplyTexts}
    \cup {<<Prose>>, <<Json(JNull)>>, <<Json(JArr(<<>>))>>, <<Json(JObj(<<>>))>>,
          <<Json(JObj(<<Member("error", JStr("overloaded"))>>))>>}
    \cup {<<Json(JObj(<<Member("choices", c)>>))>> :
             c \in {JNull, JArr(<<>>), JStr("none"), JArr(<<JNull>>), JArr(<<JNum>>),
                    JArr(<<JObj(<<>>)>>)}}
    \cup {<<Json(responseWith(m))>> :
             m \in {JNull, JNum, JObj(<<>>),
                    JObj(<<Member("content", JNull)>>),
                    JObj(<<Member("content", JNum)>>),
                    JObj(<<Member("content", JStr("hello"))>>)}}

\* The tools a request declares, by name.
DeclaredTools == {<<"f">>, <<"f", "g">>}

\* result := toolsim.ParseResponse(respBody, tools, peek.Model)
CallParseResponse ==
    /\ prPc = "call"
    /\ prResult' \in ParseResponse(prBody, prTools)
    /\ prPc' = "done"
    /\ UNCHANGED <<prBody, prTools>>
    /\ UNCHANGED exceptParse

InitParse ==
    /\ prBody \in ResponseBodies
    /\ prTools \in DeclaredTools
    /\ prPc = "call"
    /\ prResult = Returned(<<>>)
    /\ IdleStream /\ IdleRedact /\ IdleClassify /\ IdleDispatch /\ IdleHandler
    /\ IdlePool /\ IdleSpans
    /\ IdleRegister
    /\ IdleDiscover
    /\ IdleRewrite
    /\ IdleSign
    /\ IdleShape
    /\ IdleRequest
    /\ IdleRestore
    /\ IdleLlm

NextParse == CallParseResponse

SpecParse ==
    InitParse /\ [][NextParse]_vars

\* The value of a member of an object, null when the value is no object or
\* has no such member.
member(v, k) == IF v.t = "obj" /\ Has(v.a, k) THEN Get(v.a, k) ELSE JNull

\* The first element of an array, null when there is none.
firstOf(v) == IF v.t = "arr" /\ Len(v.a) > 0 THEN v.a[1].v ELSE JNull

\* The message of the first choice of a body, null when there is none.
messageOf(body) ==
    IF Len(body) = 1 /\ body[1].k = "json"
    THEN member(firstOf(member(body[1].v, "choices")), "message")
    ELSE JNull

\* The text of the content of that message, with the white space and the
\* code fences around it taken off.
contentOf(body) ==
    LET c == member(messageOf(body), "content")
        text == IF c.t = "str" THEN TrimSpaceText(textOf(c)) ELSE <<>>
        inner == IF Len(text) >= 2 /\ text[1] = Fence
                 THEN SelectSeq(Tail(text), LAMBDA m : m # Fence)
                 ELSE text
    IN  TrimSpaceText(inner)

\* The calls the content holds: the elements of the array it is, or of the
\* one array in it; or the one object it is.
callsIn(text) ==
    LET arrays == Flatten([n \in DOMAIN text |->
                              IF text[n].k = "json" THEN topArrays(text[n].v) ELSE <<>>])
    IN  IF Len(arrays) = 1 /\ arrays[1].a # <<>>
           /\ \A n \in DOMAIN arrays[1].a : arrays[1].a[n].v.t \in {"obj", "null"}
        THEN [n \in DOMAIN arrays[1].a |-> arrays[1].a[n].v]
        ELSE IF Len(text) = 1 /\ text[1].k = "json" /\ text[1].v.t = "obj"
        THEN <<text[1].v>>
        ELSE <<>>

\* Those of them that name a declared tool.
declaredCalls(body, tools) ==
    SelectSeq(callsIn(contentOf(body)),
              LAMBDA c : member(c, "name").t = "str"
                         /\ \E n \in DOMAIN tools : tools[n] = member(c, "name").s)

\* The arguments the call is passed on with.
argumentsOf(c) ==
    IF member(c, "arguments").t = "null" THEN JObj(<<>>) ELSE member(c, "arguments")

\* The body ParseResponse returned, as a JSON value.
returnedDoc == IF prResult.body # <<>> THEN prResult.body[1].v ELSE JNull

\* C16 (rewriting the response): ParseResponse rewrites the upstream
\* response if and only if at least one parsed call names a declared tool;
\* then the first choice's message has role assistant, content null and one
\* tool_calls entry per surviving call, in order, with an id prefixed call_,
\* the call's name and its arguments ("{}" when missing or null), and
\* finish_reason is tool_calls; no entry names an undeclared tool.
C16_RewriteIffDeclaredCall ==
    (prPc = "done" /\ prResult.kind = "returned") =>
        LET want == declaredCalls(prBody, prTools)
            choice == firstOf(member(returnedDoc, "choices"))
            msg == member(choice, "message")
            calls == member(msg, "tool_calls")
        IN  /\ (prResult.body # prBody) <=> (want # <<>>)
            /\ want # <<>> =>
                  /\ member(msg, "role") = JStr("assistant")
                  /\ Has(msg.a, "content") /\ member(msg, "content") = JNull
                  /\ member(choice, "finish_reason") = JStr("tool_calls")
                  /\ calls.t = "arr" /\ Len(calls.a) = Len(want)
                  /\ \A n \in DOMAIN want :
                        LET entry == calls.a[n].v
                            fn == member(entry, "function")
                        IN  /\ member(entry, "id").s \in ToolCallIDStrings
                            /\ member(entry, "type") = JStr("function")
                            /\ member(fn, "name") = member(want[n], "name")
                            /\ member(fn, "arguments")
                                   = JText(<<Json(argumentsOf(want[n]))>>)
                            /\ \E k \in DOMAIN prTools :
                                   prTools[k] = member(fn, "name").s

\* The reply holds, in prose, a call of g and a call of f without arguments;
\* only f is declared: one tool_calls entry, for f, with arguments "{}".
C16_Witness ==
    /\ prPc = "done" /\ prResult.kind = "returned"
    /\ prTools = <<"f">>
    /\ contentOf(prBody) = <<Prose, Json(JArr(<<callG, callFNoArgs>>)), Prose>>
    /\ prResult.body # prBody
    /\ LET calls == member(member(firstOf(member(returnedDoc, "choices")), "message"),
                           "tool_calls")
       IN  /\ Len(calls.a) = 1
           /\ member(calls.a[1].v, "function")
                  = JObj(<<Member("name", JStr("f")),
                           Member("arguments", JText(<<Json(JObj(<<>>))>>))>>)

\* C17 (fallback to the original): for every upstream body from which no
\* valid tool call can be extracted (invalid JSON, no choices field, empty
\* choices, a choice without message, content that is null, no string or
\* no tool-call JSON) ParseResponse terminates normally and returns the
\* upstream body unchanged.
C17_TotalFallback ==
    (prPc = "done" /\ declaredCalls(prBody, prTools) = <<>>) =>
        /\ prResult.kind = "returned"
        /\ prResult.body = prBody

-----------------------------------------------------------------------------
(* redactText from the spans the classifiers returned                      *)
(* (internal/sanitize/sanitize.go:164-182, 212-276)                        *)

\* Bound: the spans runClassifiers returns for one text.
MaxPipelineSpans == 2

\* "asd@x.com" and "a bc d".
asd_x_com == <<97, 115, 100, 64, 120, 46, 99, 111, 109>>
a_bc_d == <<97, 32, 98, 99, 32, 100>>

\* "\u00e9 x" (valid UTF-8, the first character takes two bytes) and a text
\* that is not valid UTF-8: two stray continuation bytes and the byte FF,
\* with spaces between them.
e_x == <<195, 169, 32, 120>>
illFormed == <<169, 32, 169, 32, 255>>

PipelineTexts == {asd_x_com, a_bc_d, e_x, illFormed}

\* The spans a classifier may return for a text: every stretch of it, and
\* offsets that are out of range, empty or reversed.
PipelineSpans(text) ==
    {sp \in [Start : 0..Len(text), End : 0..Len(text)] : sp.Start < sp.End}
        \cup {[Start |-> -1, End |-> 1], [Start |-> 1, End |-> 1],
              [Start |-> 2, End |-> 1], [Start |-> Len(text) - 1, End |-> Len(text) + 1]}

\* redactText, lines 164-182, once runClassifiers has returned allSpans.
RedactSpans ==
    /\ spPc = "call"
    /\ LET r == redactText(spText, spAll, newTokenMap, 0)
       IN  /\ spApplied' = keptSpans(spText, spAll)
           /\ spOut' = r.text
           /\ spTm' = r.tm
    /\ spPc' = "done"
    /\ UNCHANGED <<spText, spAll>>
    /\ UNCHANGED exceptSpans

InitSpans ==
    /\ spText \in PipelineTexts
    /\ spAll \in SeqsUpTo(PipelineSpans(spText), MaxPipelineSpans)
    /\ spPc = "call"
    /\ spApplied = <<>>
    /\ spOut = <<>>
    /\ spTm = newTokenMap
    /\ IdleStream /\ IdleRedact /\ IdleClassify /\ IdleDispatch /\ IdleHandler
    /\ IdlePool /\ IdleParse
    /\ IdleRegister
    /\ IdleDiscover
    /\ IdleRewrite
    /\ IdleSign
    /\ IdleShape
    /\ IdleRequest
    /\ IdleRestore
    /\ IdleLlm

NextSpans == RedactSpans

SpecSpans ==
    InitSpans /\ [][NextSpans]_vars

\* C19 (word boundaries): for every span that is applied, the byte before
\* its start (when start > 0) and the byte at its end (when end < len(text))
\* in the original text are word-boundary bytes; a hit on "sd@x.com" inside
\* "asd@x.com" causes no redaction and registers nothing.
C19_WordBoundaryRespect ==
    LET applied == keptSpans(spText, spAll)
    IN  /\ \A n \in DOMAIN applied :
               /\ applied[n].Start > 0 =>
                      spText[applied[n].Start] \in wordBoundaryBytes
               /\ applied[n].End < Len(spText) =>
                      spText[applied[n].End + 1] \in wordBoundaryBytes
        /\ spPc = "done" =>
               /\ spApplied = applied
               /\ (spText = asd_x_com /\ spAll = <<[Start |-> 1, End |-> 9]>>) =>
                      spOut = spText /\ IsEmpty(spTm)

\* "bc" and the "c" inside it were returned for "a bc d": "bc" alone was
\* applied.
C19_Witness ==
    /\ spPc = "done"
    /\ spText = a_bc_d
    /\ spAll = <<[Start |-> 3, End |-> 4], [Start |-> 2, End |-> 4]>>
    /\ spApplied = <<[Start |-> 2, End |-> 4]>>
    /\ spOut = <<97, 32>> \o placeholderFor(1) \o <<32, 100>>

\* C20 (non-overlap): whatever spans the classifiers returned, in whatever
\* order, the spans that survive validation, the descending sort and the
\* deduplication and are applied to the text are pairwise disjoint.
C20_AppliedSpansDisjoint ==
    LET applied == keptSpans(spText, spAll)
    IN  /\ \A m, n \in DOMAIN applied :
               m # n => \/ applied[m].End <= applied[n].Start
                        \/ applied[n].End <= applied[m].Start
        /\ spPc = "done" => spApplied = applied

\* "a bc" and "bc d" were returned for "a bc d": the one that starts later
\* was applied, the other dropped.
C20_Witness ==
    /\ spPc = "done"
    /\ spText = a_bc_d
    /\ spAll = <<[Start |-> 0, End |-> 4], [Start |-> 2, End |-> 6]>>
    /\ spApplied = <<[Start |-> 2, End |-> 6]>>
    /\ spOut = <<97, 32>> \o placeholderFor(1)

\* C25 (wider span wins): when two valid spans overlap, deduplication drops
\* the narrower one, and keeps the wider one when no third span is involved.
C25_WiderSpanWins ==
    LET valid == validSpans(spText, spAll)
        width(sp) == sp.End - sp.Start
        overlap(a, b) == a.Start < b.End /\ b.Start < a.End
        isApplied(sp) == \E n \in DOMAIN spApplied : spApplied[n] = sp
    IN  spPc = "done" =>
            \A i, j \in DOMAIN valid :
                (overlap(valid[i], valid[j]) /\ width(valid[i]) > width(valid[j])) =>
                    /\ ~isApplied(valid[j])
                    /\ Len(valid) = 2 => isApplied(valid[i])

\* The width of the well-formed UTF-8 sequence s begins with (s is not
\* empty), or 0 when it begins with none (unicode/utf8, Unicode table 3-7).
seqWidth(s) ==
    LET n == Len(s)
        b == s[1]
        c(k) == n >= k /\ s[k] \in 128..191
    IN  IF b < 128 THEN 1
        ELSE IF b \in 194..223 /\ c(2) THEN 2
        ELSE IF b = 224 /\ n >= 2 /\ s[2] \in 160..191 /\ c(3) THEN 3
        ELSE IF b \in (225..236) \cup (238..239) /\ c(2) /\ c(3) THEN 3
        ELSE IF b = 237 /\ n >= 2 /\ s[2] \in 128..159 /\ c(3) THEN 3
        ELSE IF b = 240 /\ n >= 2 /\ s[2] \in 144..191 /\ c(3) /\ c(4) THEN 4
        ELSE IF b \in 241..243 /\ c(2) /\ c(3) /\ c(4) THEN 4
        ELSE IF b = 244 /\ n >= 2 /\ s[2] \in 128..143 /\ c(3) /\ c(4) THEN 4
        ELSE 0

\* utf8.Valid
RECURSIVE ValidUTF8(_)
ValidUTF8(s) ==
    IF s = <<>> THEN TRUE
    ELSE LET w == seqWidth(s) IN w > 0 /\ ValidUTF8(SliceFrom(s, w))

\* The Go offsets at which a code point of s begins when s is decoded from
\* offset i on (an ill-formed byte counts as one code point), and len(s).
RECURSIVE RuneStartsFrom(_, _)
RuneStartsFrom(s, i) ==
    IF i >= Len(s) THEN {Len(s)}
    ELSE LET w == seqWidth(SliceFrom(s, i))
         IN  {i} \cup RuneStartsFrom(s, i + (IF w = 0 THEN 1 ELSE w))

RuneStarts(s) == RuneStartsFrom(s, 0)

\* text without the bytes of the spans (disjoint, by descending Start).
RECURSIVE outsideSpans(_, _)
outsideSpans(text, spans) ==
    IF spans = <<>> THEN text
    ELSE outsideSpans(SliceTo(text, Head(spans).Start) \o SliceFrom(text, Head(spans).End),
                      Tail(spans))

\* C21 as stated (UTF-8 safety): every applied span starts and ends on a
\* code-point boundary of the original text, no applied span starts or ends
\* on a continuation byte, and the forwarded text is valid UTF-8 if and only
\* if the input text was.
C21_ValidIffInputValid ==
    LET applied == keptSpans(spText, spAll)
    IN  /\ \A n \in DOMAIN applied :
               /\ applied[n].Start \in RuneStarts(spText)
               /\ applied[n].End \in RuneStarts(spText)
               /\ spText[applied[n].Start + 1] \notin 128..191
               /\ applied[n].End < Len(spText) =>
                      spText[applied[n].End + 1] \notin 128..191
        /\ spPc = "done" => (ValidUTF8(spOut) <=> ValidUTF8(spText))

\* C21, amended (UTF-8 safety): every applied span starts and ends on a
\* code-point boundary of the original text (a span whose start, past
\* offset 0, or whose end is a continuation byte is dropped); the forwarded
\* text is valid UTF-8 whenever the input text was, and when the input was
\* not, exactly when what is left of it outside the applied spans is valid.
C21_Utf8Safety ==
    LET applied == keptSpans(spText, spAll)
    IN  /\ \A n \in DOMAIN applied :
               /\ applied[n].Start \in RuneStarts(spText)
               /\ applied[n].End \in RuneStarts(spText)
               /\ applied[n].Start > 0 => spText[applied[n].Start + 1] \notin 128..191
               /\ applied[n].End < Len(spText) =>
                      spText[applied[n].End + 1] \notin 128..191
        /\ spPc = "done" =>
               /\ spApplied = applied
               /\ ValidUTF8(spText) => ValidUTF8(spOut)
               /\ ValidUTF8(spOut) <=> ValidUTF8(outsideSpans(spText, applied))

\* For "é x" the classifiers returned the first byte of the two-byte
\* character and then the character: only the character was replaced, and the
\* result is valid UTF-8.
C21_Witness ==
    /\ spPc = "done"
    /\ spText = e_x
    /\ spAll = <<[Start |-> 0, End |-> 1], [Start |-> 0, End |-> 2]>>
    /\ spApplied = <<[Start |-> 0, End |-> 2]>>
    /\ spOut = placeholderFor(1) \o <<32, 120>>
    /\ ValidUTF8(spOut)

\* The original text with every span of spans (disjoint, by descending
\* Start) replaced by the placeholder m holds for the bytes of the original
\* at the span's offsets.
RECURSIVE replacedAt(_, _, _)
replacedAt(original, spans, m) ==
    IF spans = <<>> THEN original
    ELSE LET sp == Head(spans)
         IN  replacedAt(SliceTo(original, sp.Start), Tail(spans), m)
                 \o m.toToken[Slice(original, sp.Start, sp.End)]
                 \o SliceFrom(original, sp.End)

\* spans lie one before the other, the later in the text first.
descendingApart(spans) ==
    \A n \in 1..(Len(spans) - 1) : spans[n + 1].End <= spans[n].Start

\* C33 (offsets are not shifted): the text redactText returns is the
\* original text with each applied span [start, end) replaced by the
\* placeholder registered for original[start:end]; the bytes registered for
\* a span are the bytes of the original at its offsets, and the bytes
\* outside the applied spans are there unchanged and in their order.
C33_SpliceFrame ==
    spPc = "done" =>
        /\ descendingApart(spApplied)
        /\ \A n \in DOMAIN spApplied :
               LET matched == Slice(spText, spApplied[n].Start, spApplied[n].End)
               IN  /\ matched \in DOMAIN spTm.toToken
                   /\ spTm.fromToken[spTm.toToken[matched]] = matched
        /\ DOMAIN spTm.toToken =
               {Slice(spText, spApplied[n].Start, spApplied[n].End) : n \in DOMAIN spApplied}
        /\ spOut = replacedAt(spText, spApplied, spTm)

\* "a" and "d" of "a bc d" were returned: "d" was replaced first, then "a",
\* at its offsets in the original text.
C33_Witness ==
    /\ spPc = "done"
    /\ spText = a_bc_d
    /\ spAll = <<[Start |-> 0, End |-> 1], [Start |-> 5, End |-> 6]>>
    /\ spApplied = <<[Start |-> 5, End |-> 6], [Start |-> 0, End |-> 1]>>
    /\ spTm.toToken[<<100>>] = placeholderFor(1)
    /\ spTm.toToken[<<97>>] = placeholderFor(2)
    /\ spOut = placeholderFor(2) \o <<32, 98, 99, 32>> \o placeholderFor(1)

-----------------------------------------------------------------------------
(* redactText on a text that already holds placeholders                    *)
(* (internal/sanitize/sanitize.go:96-98, 164-182, 225-248)                 *)

\* Bound: the spans runClassifiers returns for a text with a placeholder.
MaxPlaceholderSpans == 1

\* "a «TOKEN_1» b", and "x «TOKEN_000001»" with a placeholder as register
\* writes it.
a_tok_b == <<97, 32>> \o tokenPrefix \o <<49>> \o tokenSuffix \o <<32, 98>>
x_tok == <<120, 32>> \o placeholderFor(1)

PlaceholderTexts == {a_tok_b, x_tok}

\* The spans a classifier may return: every stretch of the text.
PlaceholderSpans(text) ==
    {sp \in [Start : 0..Len(text), End : 0..Len(text)] : sp.Start < sp.End}

InitPlaceholder ==
    /\ spText \in PlaceholderTexts
    /\ spAll \in SeqsUpTo(PlaceholderSpans(spText), MaxPlaceholderSpans)
    /\ spPc = "call"
    /\ spApplied = <<>>
    /\ spOut = <<>>
    /\ spTm = newTokenMap
    /\ IdleStream /\ IdleRedact /\ IdleClassify /\ IdleDispatch /\ IdleHandler
    /\ IdlePool /\ IdleParse /\ IdleRegister /\ IdleDiscover /\ IdleRewrite
    /\ IdleSign /\ IdleShape
    /\ IdleRequest
    /\ IdleRestore
    /\ IdleLlm

SpecPlaceholder ==
    InitPlaceholder /\ [][NextSpans]_vars

\* The stretches [p, q) of text that are one placeholder.
placeholdersIn(text) ==
    {pl \in [Start : 0..Len(text), End : 0..Len(text)] :
        /\ pl.Start < pl.End
        /\ HasPrefix(SliceFrom(text, pl.Start), tokenPrefix)
        /\ LET after == Slice(text, pl.Start + Len(tokenPrefix), pl.End)
               d == DigitRun(after)
           IN  d >= 1 /\ SliceFrom(after, d) = tokenSuffix}

\* C29 (placeholders are never redacted again): no applied span overlaps a
\* placeholder already present in the text, whether it contains it, lies
\* inside it or overlaps it at either end; no placeholder and no fragment
\* of one is registered as an original, and every placeholder of the text
\* is still in the text that is forwarded.
C29_NoPlaceholderOverlap ==
    spPc = "done" =>
        LET present == placeholdersIn(spText)
        IN  /\ \A n \in DOMAIN spApplied : \A pl \in present :
                   spApplied[n].End <= pl.Start \/ pl.End <= spApplied[n].Start
            /\ \A o \in DOMAIN spTm.toToken :
                   /\ ~tokenPlaceholderRe(o)
                   /\ \A pl \in present :
                          ~Contains(Slice(spText, pl.Start, pl.End), o)
            /\ \A pl \in present :
                   Contains(spOut, Slice(spText, pl.Start, pl.End))

\* A span that is exactly the placeholder of "a «TOKEN_1» b" came back from
\* the classifiers, was dropped, and the text is forwarded as it was.
C29_Witness ==
    /\ spPc = "done"
    /\ spText = a_tok_b
    /\ spAll = <<[Start |-> 2, End |-> 13]>>
    /\ Slice(spText, 2, 13) = tokenPrefix \o <<49>> \o tokenSuffix
    /\ spApplied = <<>>
    /\ spOut = spText
    /\ IsEmpty(spTm)

-----------------------------------------------------------------------------
(* TokenMap.register called by requests that are handled concurrently      *)
(* (internal/sanitize/sanitize.go:26-55)                                   *)

\* Bounds: the handler goroutines that run at a time, the requests they
\* serve, and the calls of globalCounter.Add.
MaxHandlers == 2
MaxRequests == 3
MaxRegistrations == 3

Handlers == 1..MaxHandlers

\* "a" and "b".
RegOriginals == {<<97>>, <<98>>}

\* A counter that hands out the value it already has.
globalCounterKept(counter) == counter

\* globalCounter.Add(1), line 50: atomic, yields the new value.
globalCounterAdd(counter) == counter + 1

\* A store that writes the original -> placeholder dictionary only.
storeForwardOnly(m, original, tok) ==
    [toToken |-> [o \in DOMAIN m.toToken \cup {original} |->
                     IF o = original THEN tok ELSE m.toToken[o]],
     fromToken |-> m.fromToken]

\* Lines 52-53.
storeToken(m, original, tok) ==
    [toToken |-> [o \in DOMAIN m.toToken \cup {original} |->
                     IF o = original THEN tok ELSE m.toToken[o]],
     fromToken |-> [t \in DOMAIN m.fromToken \cup {tok} |->
                     IF t = tok THEN original ELSE m.fromToken[t]]]

\* RedactMessages line 282: a request begins with an empty TokenMap.
BeginRequest(h) ==
    /\ regPc[h] = "none"
    /\ regBegun < MaxRequests
    /\ regBegun' = regBegun + 1
    /\ regReq' = [regReq EXCEPT ![h] = regBegun']
    /\ regTm' = [regTm EXCEPT ![h] = newTokenMap]
    /\ regPc' = [regPc EXCEPT ![h] = "idle"]
    /\ UNCHANGED <<regCounter, regArg, regId, regIds, regToks>>
    /\ UNCHANGED exceptRegister

\* register, lines 47-49: a value registered before yields its placeholder.
RegisterLookup(h, original) ==
    /\ regPc[h] = "idle"
    /\ IF original \in DOMAIN regTm[h].toToken
       THEN UNCHANGED <<regArg, regPc>>
       ELSE /\ regArg' = [regArg EXCEPT ![h] = original]
            /\ regPc' = [regPc EXCEPT ![h] = "add"]
    /\ UNCHANGED <<regCounter, regTm, regId, regReq, regBegun, regIds, regToks>>
    /\ UNCHANGED exceptRegister

\* register, line 50.
RegisterAdd(h) ==
    /\ regPc[h] = "add"
    /\ Len(regIds) < MaxRegistrations
    /\ regCounter' = globalCounterAdd(regCounter)
    /\ regId' = [regId EXCEPT ![h] = regCounter']
    /\ regIds' = Append(regIds, regCounter')
    /\ regPc' = [regPc EXCEPT ![h] = "store"]
    /\ UNCHANGED <<regTm, regArg, regReq, regBegun, regToks>>
    /\ UNCHANGED exceptRegister

\* register, lines 51-54; the locals are dead once it has returned.
RegisterStore(h) ==
    /\ regPc[h] = "store"
    /\ LET tok == placeholderFor(regId[h])
       IN  /\ regTm' = [regTm EXCEPT ![h] = storeToken(@, regArg[h], tok)]
           /\ regToks' = regToks \cup {[request |-> regReq[h], id |-> regId[h],
                                        original |-> regArg[h], tok |-> tok]}
    /\ regArg' = [regArg EXCEPT ![h] = <<>>]
    /\ regId' = [regId EXCEPT ![h] = 0]
    /\ regPc' = [regPc EXCEPT ![h] = "idle"]
    /\ UNCHANGED <<regCounter, regReq, regBegun, regIds>>
    /\ UNCHANGED exceptRegister

\* The request is over, answered or failed (handler.go:115-131): its TokenMap
\* is dropped, globalCounter is not touched.
EndRequest(h) ==
    /\ regPc[h] = "idle"
    /\ regPc' = [regPc EXCEPT ![h] = "none"]
    /\ regTm' = [regTm EXCEPT ![h] = newTokenMap]
    /\ regReq' = [regReq EXCEPT ![h] = 0]
    /\ UNCHANGED <<regCounter, regArg, regId, regBegun, regIds, regToks>>
    /\ UNCHANGED exceptRegister

InitRegister ==
    /\ regCounter = 0
    /\ regPc = [h \in Handlers |-> "none"]
    /\ regTm = [h \in Handlers |-> newTokenMap]
    /\ regArg = [h \in Handlers |-> <<>>]
    /\ regId = [h \in Handlers |-> 0]
    /\ regReq = [h \in Handlers |-> 0]
    /\ regBegun = 0
    /\ regIds = <<>>
    /\ regToks = {}
    /\ IdleStream /\ IdleRedact /\ IdleClassify /\ IdleDispatch /\ IdleHandler
    /\ IdlePool /\ IdleParse /\ IdleSpans
    /\ IdleDiscover
    /\ IdleRewrite
    /\ IdleSign
    /\ IdleShape
    /\ IdleRequest
    /\ IdleRestore
    /\ IdleLlm

NextRegister ==
    \E h \in Handlers :
        \/ BeginRequest(h)
        \/ \E original \in RegOriginals : RegisterLookup(h, original)
        \/ RegisterAdd(h)
        \/ RegisterStore(h)
        \/ EndRequest(h)

SpecRegister ==
    InitRegister /\ [][NextRegister]_vars

\* C22 (globally unique placeholders): in every interleaving of the register
\* calls of concurrently handled requests, no two first-time registrations,
\* of one TokenMap or of two, got the same placeholder; the ids the
\* process-wide counter handed out are strictly increasing, none is handed
\* out twice, and the counter never falls below an id it has handed out,
\* also after requests have ended.
C22_GloballyUnique ==
    /\ \A a, b \in regToks : a # b => a.tok # b.tok
    /\ \A i, j \in DOMAIN regIds : i < j => regIds[i] < regIds[j]
    /\ \A i \in DOMAIN regIds : regIds[i] <= regCounter

\* Two requests registered the same value at the same time and the one that
\* drew its id second stored first; both have ended, and a request that
\* began afterwards got the next id for the same value.
C22_Witness ==
    /\ \E a, b, c \in regToks :
           /\ a.request = 1 /\ b.request = 2 /\ c.request = 3
           /\ a.original = b.original /\ b.original = c.original
           /\ a.tok = placeholderFor(2)
           /\ b.tok = placeholderFor(1)
           /\ c.tok = placeholderFor(3)
    /\ \A h \in Handlers : regReq[h] \in {0, 3}

\* toToken and fromToken of m are inverses of each other.
inverses(m) ==
    /\ DOMAIN m.fromToken = {m.toToken[o] : o \in DOMAIN m.toToken}
    /\ \A o \in DOMAIN m.toToken : m.fromToken[m.toToken[o]] = o
    /\ \A t \in DOMAIN m.fromToken : m.toToken[m.fromToken[t]] = t

\* Every entry of m is in n, unchanged.
entriesKept(m, n) ==
    /\ \A o \in DOMAIN m.toToken :
           o \in DOMAIN n.toToken /\ n.toToken[o] = m.toToken[o]
    /\ \A t \in DOMAIN m.fromToken :
           t \in DOMAIN n.fromToken /\ n.fromToken[t] = m.fromToken[t]

\* C34 (a TokenMap only grows): after every step of every interleaving of
\* register calls the two dictionaries of each TokenMap are inverses of each
\* other; while a request lives no entry of its map is removed or changed,
\* and Restore resolves each placeholder of the map to its original.
C34_InversesAndGrowOnly ==
    [][\A h \in Handlers :
           /\ inverses(regTm'[h])
           /\ (regReq'[h] = regReq[h] /\ regReq[h] # 0) => entriesKept(regTm[h], regTm'[h])
           /\ \A o \in DOMAIN regTm'[h].toToken :
                  Restore(regTm'[h], regTm'[h].toToken[o]) = {o}]_vars

\* A request registered "a" and then "b", another request having drawn an
\* id in between: its map holds both, with the ids 1 and 3.
C34_Witness ==
    \E h \in Handlers :
        /\ regPc[h] = "idle"
        /\ regTm[h].toToken = (<<97>> :> placeholderFor(1)) @@ (<<98>> :> placeholderFor(3))
        /\ regTm[h].fromToken =
               (placeholderFor(1) :> <<97>>) @@ (placeholderFor(3) :> <<98>>)
        /\ regCounter = 3

-----------------------------------------------------------------------------
(* Client.DiscoverEndpoints (internal/upstream/client.go:25-36, 70-128)   *)

\* Bounds: the calls of DiscoverEndpoints, the participants of one list.
MaxDiscoveries == 3
MaxParticipants == 2

\* Lines 28-36.
allowedTransferAgents ==
    {"gonka1y2a9p56kv044327uycmqdexl7zs82fs5ryv5le",
     "gonka1dkl4mah5erqggvhqkpc8j3qs5tyuetgdy552cp",
     "gonka1kx9mca3xm8u8ypzfuhmxey66u0ufxhs7nm6wc5",
     "gonka1ddswmmmn38esxegjf6qw36mt4aqyw6etvysy5x",
     "gonka10fynmy2npvdvew0vj2288gz8ljfvmjs35lat8n",
     "gonka1v8gk5z7gcv72447yfcd2y8g78qk05yc4f3nk4w",
     "gonka1gndhek2h2y5849wf6tmw6gnw9qn4vysgljed0u"}

\* The participants a list may hold.  index: an address of the whitelist,
\* one that is not on it, and none; inference_url: "n/", "/" and none.
ParticipantIndexes ==
    {"gonka1gndhek2h2y5849wf6tmw6gnw9qn4vysgljed0u", "gonka1notatransferagent", ""}

ParticipantURLs == {<<110, 47>>, <<47>>, <<>>}

Participants == [Index : ParticipantIndexes, InferenceURL : ParticipantURLs]

\* What the GET of lines 76-103 may give: no reply, a status other than 200,
\* a body that does not decode, or a list of participants.
Fetches ==
    {[kind |-> k] : k \in {"transport", "status", "decode"}}
        \cup {[kind |-> "list", participants |-> ps] :
                 ps \in SeqsUpTo(Participants, MaxParticipants)}

\* strings.TrimRight(s, "/")
RECURSIVE TrimRightSlash(_)
TrimRightSlash(s) ==
    IF s # <<>> /\ s[Len(s)] = 47 THEN TrimRightSlash(SubSeq(s, 1, Len(s) - 1)) ELSE s

\* A filter that does not look at the whitelist.
keptWithAnyIndex(p) == ~(p.InferenceURL = <<>> \/ p.Index = "")

\* Lines 107-113: the participants the loop does not skip.
keptParticipant(p) ==
    /\ ~(p.InferenceURL = <<>> \/ p.Index = "")
    /\ p.Index \in allowedTransferAgents

\* Lines 114-115, "/v1" being 47, 118, 49.
endpointOf(p) ==
    [URL |-> TrimRightSlash(p.InferenceURL) \o <<47, 118, 49>>, Address |-> p.Index]

\* Lines 105-116.
RECURSIVE epsOf(_)
epsOf(ps) ==
    IF ps = <<>> THEN <<>>
    ELSE (IF keptParticipant(Head(ps)) THEN <<endpointOf(Head(ps))>> ELSE <<>>) \o epsOf(Tail(ps))

\* The participants of the fetched list that are on the whitelist and have
\* a URL.
usable(fetched) ==
    IF fetched.kind # "list" THEN {}
    ELSE {n \in DOMAIN fetched.participants :
             /\ fetched.participants[n].Index \in allowedTransferAgents
             /\ fetched.participants[n].InferenceURL # <<>>}

\* DiscoverEndpoints, lines 72-128; discFetched and discBefore only record.
DiscoverEndpoints(fetched) ==
    /\ discCalls < MaxDiscoveries
    /\ discCalls' = discCalls + 1
    /\ discBefore' = clientEndpoints
    /\ discFetched' = [kind |-> fetched.kind,
                       listed |-> IF fetched.kind = "list" THEN Len(fetched.participants)
                                  ELSE 0,
                       usable |-> Cardinality(usable(fetched))]
    /\ IF fetched.kind # "list"
       THEN /\ discErr' = fetched.kind
            /\ UNCHANGED clientEndpoints
       ELSE LET eps == epsOf(fetched.participants)
            IN  IF Len(eps) = 0
                THEN /\ discErr' = "none found"
                     /\ UNCHANGED clientEndpoints
                ELSE /\ clientEndpoints' = eps
                     /\ discErr' = "nil"
    /\ UNCHANGED exceptDiscover

InitDiscover ==
    /\ clientEndpoints = <<>>
    /\ discBefore = <<>>
    /\ discFetched = [kind |-> "none", listed |-> 0, usable |-> 0]
    /\ discErr = "nil"
    /\ discCalls = 0
    /\ IdleStream /\ IdleRedact /\ IdleClassify /\ IdleDispatch /\ IdleHandler
    /\ IdlePool /\ IdleParse /\ IdleSpans /\ IdleRegister
    /\ IdleRewrite
    /\ IdleSign
    /\ IdleShape
    /\ IdleRequest
    /\ IdleRestore
    /\ IdleLlm

NextDiscover == \E fetched \in Fetches : DiscoverEndpoints(fetched)

SpecDiscover ==
    InitDiscover /\ [][NextDiscover]_vars

\* C23 (endpoint table): after any sequence of DiscoverEndpoints calls every
\* endpoint of the table has an address of the Transfer-Agent whitelist and a
\* non-empty URL; a discovery that fails or finds no usable participant
\* returns an error and leaves the table as it was, so that a table that was
\* not empty is never replaced by an empty one.
C23_TableWhitelisted ==
    /\ \A n \in DOMAIN clientEndpoints :
           /\ clientEndpoints[n].Address \in allowedTransferAgents
           /\ clientEndpoints[n].URL # <<>>
    /\ discCalls > 0 =>
           /\ discFetched.usable = 0 =>
                  discErr # "nil" /\ clientEndpoints = discBefore
           /\ discErr # "nil" => clientEndpoints = discBefore
           /\ discBefore # <<>> => clientEndpoints # <<>>

\* A first discovery installed one endpoint; the second got a list of two
\* participants, none of them on the whitelist with a URL: it returned an
\* error and the table is the one the first discovery installed.
C23_Witness ==
    /\ discCalls = 2
    /\ discFetched = [kind |-> "list", listed |-> 2, usable |-> 0]
    /\ discErr = "none found"
    /\ clientEndpoints =
           <<[URL |-> <<110, 47, 118, 49>>,
              Address |-> "gonka1gndhek2h2y5849wf6tmw6gnw9qn4vysgljed0u"]>>

-----------------------------------------------------------------------------
(* toolsim.RewriteRequest on JSON documents                                *)
(* (internal/toolsim/toolsim.go:18-62, 82-150, 232-307)                    *)

\* Bound: the messages of a request.
MaxMessages == 2

JBool(b) == [t |-> "bool", s |-> IF b THEN "true" ELSE "false", a |-> <<>>]

\* delete(m, k)
Delete(members, k) == SelectSeq(members, LAMBDA mb : mb.k # k)

\* m[k], or null when the member is missing: a missing member and a null
\* both leave a field of a struct as it is.
Field(members, k) == IF Has(members, k) THEN Get(members, k) ELSE JNull

\* json.Unmarshal into a field of type string.
unmarshalWord(v) ==
    CASE v.t = "str"  -> [ok |-> TRUE, s |-> v.s]
      [] v.t = "null" -> [ok |-> TRUE, s |-> ""]
      [] OTHER        -> [ok |-> FALSE, s |-> ""]

\* ... into a FunctionCall, lines 46-49.
unmarshalFunctionCall(v) ==
    CASE v.t = "obj" ->
            [ok |-> unmarshalWord(Field(v.a, "name")).ok
                    /\ unmarshalWord(Field(v.a, "arguments")).ok,
             Name |-> unmarshalWord(Field(v.a, "name")).s,
             Arguments |-> unmarshalWord(Field(v.a, "arguments")).s]
      [] v.t = "null" -> [ok |-> TRUE, Name |-> "", Arguments |-> ""]
      [] OTHER -> [ok |-> FALSE, Name |-> "", Arguments |-> ""]

\* ... into a ToolCallMsg, lines 39-43.
unmarshalToolCallMsg(v) ==
    CASE v.t = "obj" ->
            [ok |-> /\ unmarshalWord(Field(v.a, "id")).ok
                    /\ unmarshalWord(Field(v.a, "type")).ok
                    /\ unmarshalFunctionCall(Field(v.a, "function")).ok,
             ID |-> unmarshalWord(Field(v.a, "id")).s,
             Type |-> unmarshalWord(Field(v.a, "type")).s,
             Function |-> unmarshalFunctionCall(Field(v.a, "function"))]
      [] v.t = "null" ->
            [ok |-> TRUE, ID |-> "", Type |-> "",
             Function |-> unmarshalFunctionCall(JNull)]
      [] OTHER ->
            [ok |-> FALSE, ID |-> "", Type |-> "",
             Function |-> unmarshalFunctionCall(JNull)]

unmarshalToolCallMsgs(v) ==
    CASE v.t = "arr" ->
            [ok |-> \A n \in DOMAIN v.a : unmarshalToolCallMsg(v.a[n].v).ok,
             e |-> [n \in DOMAIN v.a |-> unmarshalToolCallMsg(v.a[n].v)]]
      [] v.t = "null" -> [ok |-> TRUE, e |-> <<>>]
      [] OTHER -> [ok |-> FALSE, e |-> <<>>]

\* ... into a Message, lines 30-36: the five fields of the struct are
\* decoded, every other member of the object is skipped.  Content keeps the
\* raw value, null included, and is empty when there is no such member.
unmarshalMessage(v) ==
    CASE v.t = "obj" ->
            [ok |-> /\ unmarshalWord(Field(v.a, "role")).ok
                    /\ unmarshalWord(Field(v.a, "name")).ok
                    /\ unmarshalToolCallMsgs(Field(v.a, "tool_calls")).ok
                    /\ unmarshalWord(Field(v.a, "tool_call_id")).ok,
             Role |-> unmarshalWord(Field(v.a, "role")).s,
             Content |-> Field(v.a, "content"),
             Name |-> unmarshalWord(Field(v.a, "name")).s,
             ToolCalls |-> unmarshalToolCallMsgs(Field(v.a, "tool_calls")).e,
             ToolCallID |-> unmarshalWord(Field(v.a, "tool_call_id")).s]
      [] OTHER ->
            [ok |-> v.t = "null", Role |-> "", Content |-> JNull, Name |-> "",
             ToolCalls |-> <<>>, ToolCallID |-> ""]

unmarshalMessages(v) ==
    CASE v.t = "arr" ->
            [ok |-> \A n \in DOMAIN v.a : unmarshalMessage(v.a[n].v).ok,
             e |-> [n \in DOMAIN v.a |-> unmarshalMessage(v.a[n].v)]]
      [] v.t = "null" -> [ok |-> TRUE, e |-> <<>>]
      [] OTHER -> [ok |-> FALSE, e |-> <<>>]

\* ... into a Tool, lines 52-62: the name of its function is what the
\* rewritten request depends on.
unmarshalTool(v) ==
    CASE v.t = "obj" ->
            LET fn == Field(v.a, "function")
            IN  [ok |-> /\ unmarshalWord(Field(v.a, "type")).ok
                        /\ fn.t \in {"obj", "null"}
                        /\ fn.t = "obj" => unmarshalWord(Field(fn.a, "name")).ok,
                 Name |-> IF fn.t = "obj" THEN unmarshalWord(Field(fn.a, "name")).s
                          ELSE ""]
      [] OTHER -> [ok |-> v.t = "null", Name |-> ""]

unmarshalTools(v) ==
    CASE v.t = "arr" ->
            [ok |-> \A n \in DOMAIN v.a : unmarshalTool(v.a[n].v).ok,
             e |-> [n \in DOMAIN v.a |-> unmarshalTool(v.a[n].v)]]
      [] v.t = "null" -> [ok |-> TRUE, e |-> <<>>]
      [] OTHER -> [ok |-> FALSE, e |-> <<>>]

\* json.Marshal of a ToolCallMsg and of a Message: the fields in the order
\* of the struct, content null when empty, the omitempty fields left out
\* when empty.
marshalToolCallMsg(c) ==
    JObj(<<Member("id", JStr(c.ID)), Member("type", JStr(c.Type)),
           Member("function", JObj(<<Member("name", JStr(c.Function.Name)),
                                     Member("arguments", JStr(c.Function.Arguments))>>))>>)

marshalMessage(m) ==
    JObj(<<Member("role", JStr(m.Role)), Member("content", m.Content)>>
         \o (IF m.Name # "" THEN <<Member("name", JStr(m.Name))>> ELSE <<>>)
         \o (IF m.ToolCalls # <<>>
             THEN <<Member("tool_calls",
                           JArr([n \in DOMAIN m.ToolCalls |->
                                    marshalToolCallMsg(m.ToolCalls[n])]))>>
             ELSE <<>>)
         \o (IF m.ToolCallID # ""
             THEN <<Member("tool_call_id", JStr(m.ToolCallID))>> ELSE <<>>))

\* parseToolChoice, lines 249-272: the hint, "" for none.
parseToolChoice(raw) ==
    IF unmarshalWord(raw).ok
    THEN CASE raw.t = "str" /\ raw.s = "none" -> "Do NOT call any tools."
           [] raw.t = "str" /\ raw.s = "required" -> "You MUST call at least one tool."
           [] OTHER -> ""
    ELSE IF raw.t = "obj" /\ unmarshalTool(raw).ok /\ unmarshalTool(raw).Name # ""
         THEN "You MUST call the function."
         ELSE ""

\* buildToolDescription and buildSystemPrompt, lines 232-247 and 274-293,
\* as the pieces of the prompt: the heading, one piece per tool, the rules,
\* and the hint when there is one.
buildSystemPrompt(toolList, choiceHint) ==
    JText(<<Prose>> \o [n \in DOMAIN toolList |-> Member("function", JStr(toolList[n].Name))]
          \o <<Prose>>
          \o (IF choiceHint # "" THEN <<Member("hint", JStr(choiceHint))>> ELSE <<>>))

\* injectSystemPrompt, lines 295-307.
injectSystemPrompt(messages, sysPrompt) ==
    <<[ok |-> TRUE, Role |-> "system", Content |-> sysPrompt, Name |-> "",
       ToolCalls |-> <<>>, ToolCallID |-> ""]>> \o messages

RewriteFailed(err) == [err |-> err, body |-> JNull, tools |-> <<>>, wasStream |-> FALSE]

\* RewriteRequest, lines 82-150, on a body that is a JSON document.
RewriteRequestBody(body) ==
    LET raw == unmarshalMap(body)
        toolList == IF Has(raw.m, "tools") THEN unmarshalTools(Get(raw.m, "tools"))
                    ELSE [ok |-> TRUE, e |-> <<>>]
        messages == IF Has(raw.m, "messages")
                    THEN unmarshalMessages(Get(raw.m, "messages"))
                    ELSE [ok |-> TRUE, e |-> <<>>]
        stream == Has(raw.m, "stream") /\ Get(raw.m, "stream") = JBool(TRUE)
        choiceHint == IF Has(raw.m, "tool_choice")
                      THEN parseToolChoice(Get(raw.m, "tool_choice")) ELSE ""
        injected == injectSystemPrompt(messages.e, buildSystemPrompt(toolList.e, choiceHint))
        msgBytes == JArr([n \in DOMAIN injected |-> marshalMessage(injected[n])])
        stripped == Delete(Delete(Set(raw.m, "messages", msgBytes), "tools"), "tool_choice")
    IN  IF ~raw.ok THEN RewriteFailed("unmarshal request")
        ELSE IF ~toolList.ok THEN RewriteFailed("unmarshal tools")
        ELSE IF Len(toolList.e) = 0
             THEN [err |-> "nil", body |-> body, tools |-> <<>>, wasStream |-> FALSE]
        ELSE IF ~messages.ok THEN RewriteFailed("unmarshal messages")
        ELSE [err |-> "nil",
              body |-> JObj(Set(stripped, "stream", JBool(FALSE))),
              tools |-> [n \in DOMAIN toolList.e |-> toolList.e[n].Name],
              wasStream |-> stream]

\* The messages a conversation may hold: of the user, of the system, the
\* result of a tool, a reply of the model that carries a member the proxy
\* does not know, and something that is no message.
userMessage == JObj(<<Member("role", JStr("user")), Member("content", JStr("hi"))>>)
systemMessage == JObj(<<Member("role", JStr("system")), Member("content", JStr("be brief"))>>)
toolMessage ==
    JObj(<<Member("role", JStr("tool")), Member("tool_call_id", JStr("call_1")),
           Member("content", JStr("42"))>>)
reasonedMessage ==
    JObj(<<Member("role", JStr("assistant")), Member("content", JStr("ok")),
           Member("reasoning_content", JStr("thoughts"))>>)

RequestMessages == {userMessage, systemMessage, toolMessage, reasonedMessage, JNum}

toolF == JObj(<<Member("type", JStr("function")),
                Member("function", JObj(<<Member("name", JStr("f"))>>))>>)

\* The members a request may have besides model: each set holds the
\* choices for one member, <<>> standing for its absence.
ToolsMembers ==
    {<<>>, <<Member("tools", JArr(<<>>))>>, <<Member("tools", JArr(<<toolF>>))>>,
     <<Member("tools", JArr(<<JNum>>))>>}
ToolChoiceMembers ==
    {<<>>, <<Member("tool_choice", JStr("none"))>>, <<Member("tool_choice", toolF)>>}
StreamMembers == {<<>>, <<Member("stream", JBool(TRUE))>>}
TemperatureMembers == {<<>>, <<Member("temperature", JNum)>>}
MessagesMembers ==
    {<<>>, <<Member("messages", JNull)>>, <<Member("messages", JStr("hi"))>>}
        \cup {<<Member("messages", JArr(ms))>> : ms \in SeqsUpTo(RequestMessages, MaxMessages)}

RequestBodies ==
    {JObj(<<Member("model", JStr("m"))>> \o ms \o ts \o tc \o st \o tp) :
        ms \in MessagesMembers, ts \in ToolsMembers, tc \in ToolChoiceMembers,
        st \in StreamMembers, tp \in TemperatureMembers}

\* toolSimResponse, handler.go:138.
CallRewriteRequest ==
    /\ rwPc = "call"
    /\ rwResult' = RewriteRequestBody(rwBody)
    /\ rwPc' = "done"
    /\ UNCHANGED rwBody
    /\ UNCHANGED exceptRewrite

InitRewrite ==
    /\ rwBody \in RequestBodies
    /\ rwPc = "call"
    /\ rwResult = [err |-> "nil", body |-> <<>>, tools |-> <<>>, wasStream |-> FALSE]
    /\ IdleStream /\ IdleRedact /\ IdleClassify /\ IdleDispatch /\ IdleHandler
    /\ IdlePool /\ IdleParse /\ IdleSpans /\ IdleRegister /\ IdleDiscover
    /\ IdleSign
    /\ IdleShape
    /\ IdleRequest
    /\ IdleRestore
    /\ IdleLlm

NextRewrite == CallRewriteRequest

SpecRewrite ==
    InitRewrite /\ [][NextRewrite]_vars

\* The members of an object as a Go map reads them.
keysOf(v) == {v.a[n].k : n \in DOMAIN v.a}
asMap(v) == [k \in keysOf(v) |-> Get(v.a, k)]

\* Two values are the same JSON: equal, or objects with the same members.
sameJSON(v, w) == v = w \/ (v.t = "obj" /\ w.t = "obj" /\ asMap(v) = asMap(w))

hasTools(body) ==
    /\ body.t = "obj" /\ Has(body.a, "tools")
    /\ Get(body.a, "tools").t = "arr" /\ Get(body.a, "tools").a # <<>>

originalMessages(body) ==
    IF Has(body.a, "messages") /\ Get(body.a, "messages").t = "arr"
    THEN Get(body.a, "messages").a ELSE <<>>

\* C24 (frame of the rewrite): the body RewriteRequest produces for a body
\* with a non-empty tools array has no tools and no tool_choice member, has
\* stream false, has every other top-level member with its value unchanged,
\* and its messages are one new system message followed by all the original
\* messages in their original order.
C24_RewriteFrame ==
    (rwPc = "done" /\ hasTools(rwBody) /\ rwResult.err = "nil") =>
        LET out == rwResult.body
            orig == originalMessages(rwBody)
        IN  /\ out.t = "obj"
            /\ ~Has(out.a, "tools") /\ ~Has(out.a, "tool_choice")
            /\ Has(out.a, "stream") /\ Get(out.a, "stream") = JBool(FALSE)
            /\ keysOf(out) = (keysOf(rwBody) \ {"tools", "tool_choice"})
                                 \cup {"stream", "messages"}
            /\ \A k \in keysOf(out) \ {"stream", "messages"} :
                   Get(out.a, k) = Get(rwBody.a, k)
            /\ LET ms == Get(out.a, "messages")
               IN  /\ ms.t = "arr"
                   /\ Len(ms.a) = Len(orig) + 1
                   /\ Field(ms.a[1].v.a, "role") = JStr("system")
                   /\ \A n \in DOMAIN orig : sameJSON(ms.a[n + 1].v, orig[n].v)

-----------------------------------------------------------------------------
(* Signer.Sign (internal/signer/signer.go:48-103)                          *)

\* Bounds.  The arithmetic of Sign is modelled in groups of small prime
\* order instead of the 256-bit order of secp256k1: MaxOrder is the largest
\* order tried, MaxHash the largest value of the hash that is signed.
MaxOrder == 7
MaxHash == 8
MaxSigns == 2

GroupOrders == {p \in 3..MaxOrder : \A d \in 2..(p - 1) : p % d # 0}

\* big.Int.ModInverse(k, N), N prime and 0 < k < N.
ModInverse(k, N) == CHOOSE x \in 1..(N - 1) : (x * k) % N = 1

\* rfc6979Sign, lines 82-103, for the nonce k that generateRFC6979K derived
\* and r, the x coordinate of k*G reduced mod N.
rfc6979Sign(N, D, e, k, r) == [r |-> r, s |-> (ModInverse(k, N) * (e + r * D)) % N]

\* A normalisation that leaves s as it is.
rawS(sBig, curveOrder) == sBig

\* Lines 64-68.
lowS(sBig, curveOrder) ==
    LET halfOrder == curveOrder \div 2
    IN  IF sBig > halfOrder THEN curveOrder - sBig ELSE sBig

\* big.Int.Bytes: big-endian, no leading zero byte, empty for 0.
RECURSIVE Bytes(_)
Bytes(x) == IF x = 0 THEN <<>> ELSE Bytes(x \div 256) \o <<x % 256>>

\* Lines 71-75: r and s, each right-aligned in 32 bytes.
fixedWidth(b) == [n \in 1..(32 - Len(b)) |-> 0] \o b
encodeRS(r, sBig) == fixedWidth(Bytes(r)) \o fixedWidth(Bytes(sBig))

\* base64.StdEncoding: the character for six bits, and the encoding of a
\* byte string, padded with "=" (61).
base64Char(v) ==
    IF v < 26 THEN 65 + v
    ELSE IF v < 52 THEN 97 + (v - 26)
    ELSE IF v < 62 THEN 48 + (v - 52)
    ELSE IF v = 62 THEN 43 ELSE 47

RECURSIVE EncodeToString(_)
EncodeToString(b) ==
    IF b = <<>> THEN <<>>
    ELSE IF Len(b) = 1
         THEN <<base64Char(b[1] \div 4), base64Char((b[1] % 4) * 16), 61, 61>>
    ELSE IF Len(b) = 2
         THEN <<base64Char(b[1] \div 4), base64Char((b[1] % 4) * 16 + b[2] \div 16),
                base64Char((b[2] % 16) * 4), 61>>
    ELSE <<base64Char(b[1] \div 4), base64Char((b[1] % 4) * 16 + b[2] \div 16),
           base64Char((b[2] % 16) * 4 + b[3] \div 64), base64Char(b[3] % 64)>>
             \o EncodeToString(SubSeq(b, 4, Len(b)))

\* Sign, lines 48-78: e is SHA256 of the signature input (payload hash,
\* timestamp, address), k and r what rfc6979Sign derives from key and e.
Sign(e, k, r) ==
    /\ sgCalls < MaxSigns
    /\ sgCalls' = sgCalls + 1
    /\ LET raw == rfc6979Sign(sgOrder, sgKey, e, k, r)
       IN  /\ sgRaw' = raw
           /\ sgOut' = EncodeToString(encodeRS(raw.r, lowS(raw.s, sgOrder)))
    /\ UNCHANGED <<sgOrder, sgKey>>
    /\ UNCHANGED exceptSign

\* New, lines 25-39: a key of the group.
InitSign ==
    /\ sgOrder \in GroupOrders
    /\ sgKey \in 1..(sgOrder - 1)
    /\ sgRaw = [r |-> 0, s |-> 0]
    /\ sgOut = <<>>
    /\ sgCalls = 0
    /\ IdleStream /\ IdleRedact /\ IdleClassify /\ IdleDispatch /\ IdleHandler
    /\ IdlePool /\ IdleParse /\ IdleSpans /\ IdleRegister /\ IdleDiscover /\ IdleRewrite
    /\ IdleShape
    /\ IdleRequest
    /\ IdleRestore
    /\ IdleLlm

NextSign ==
    \E e \in 0..MaxHash, k \in 1..(sgOrder - 1), r \in 0..(sgOrder - 1) : Sign(e, k, r)

SpecSign ==
    InitSign /\ [][NextSign]_vars

\* Reading a signature back: the six bits of a character, the bytes of a
\* base64 text, and the number a byte string stands for.
base64Bits(c) == CHOOSE v \in 0..63 : base64Char(v) = c

RECURSIVE DecodeString(_)
DecodeString(t) ==
    IF t = <<>> THEN <<>>
    ELSE LET v(n) == base64Bits(t[n])
             rest == DecodeString(SubSeq(t, 5, Len(t)))
         IN  IF t[3] = 61 THEN <<v(1) * 4 + v(2) \div 16>>
             ELSE IF t[4] = 61
                  THEN <<v(1) * 4 + v(2) \div 16, (v(2) % 16) * 16 + v(3) \div 4>>
             ELSE <<v(1) * 4 + v(2) \div 16, (v(2) % 16) * 16 + v(3) \div 4,
                    (v(3) % 4) * 64 + v(4)>> \o rest

RECURSIVE SetBytes(_)
SetBytes(b) == IF b = <<>> THEN 0 ELSE SetBytes(SubSeq(b, 1, Len(b) - 1)) * 256 + b[Len(b)]

encodedR == SetBytes(SubSeq(DecodeString(sgOut), 1, 32))
encodedS == SetBytes(SubSeq(DecodeString(sgOut), 33, 64))

\* C26 (low-S): in every signature Sign emits, the 64 bytes under the
\* base64 are r and s, and s is at most floor(n/2), n the group order: a raw
\* s above n/2 was replaced by n - s, any other raw s was left as it was.
C26_LowS ==
    sgCalls > 0 =>
        /\ Len(DecodeString(sgOut)) = 64
        /\ encodedR = sgRaw.r
        /\ 2 * encodedS <= sgOrder
        /\ 2 * sgRaw.s > sgOrder => encodedS = sgOrder - sgRaw.s
        /\ 2 * sgRaw.s <= sgOrder => encodedS = sgRaw.s

\* In the group of order 7 the raw s was 5: the signature carries s = 2.
C26_Witness ==
    /\ sgCalls > 0
    /\ sgOrder = 7
    /\ sgRaw.s = 5
    /\ encodedS = 2

-----------------------------------------------------------------------------
(* TokenMap.register after many registrations in the process               *)
(* (internal/sanitize/sanitize.go:26-27, 46-55)                            *)

\* Bounds: the digits of the largest value globalCounter starts a request
\* with, and the register calls of the request.
MaxDigits == 7
MaxShapeCalls == 3

RECURSIVE Pow10(_)
Pow10(k) == IF k = 0 THEN 1 ELSE 10 * Pow10(k - 1)

\* The values the counter may have when a request begins: no registration
\* yet, or so many that the next id is, or is close to, a power of ten.
CounterValues == {0} \cup {Pow10(k) - d : k \in 1..MaxDigits, d \in 1..2}

\* register, lines 46-55, called by the request.
RegisterValue(original) ==
    /\ phCalls < MaxShapeCalls
    /\ phCalls' = phCalls + 1
    /\ LET r == register(phTm, phCounter, original)
       IN  /\ phTm' = r.tm
           /\ phCounter' = r.counter
           /\ phTok' = r.tok
    /\ UNCHANGED exceptShape

InitShape ==
    /\ phCounter \in CounterValues
    /\ phTm = newTokenMap
    /\ phTok = <<>>
    /\ phCalls = 0
    /\ IdleStream /\ IdleRedact /\ IdleClassify /\ IdleDispatch /\ IdleHandler
    /\ IdlePool /\ IdleParse /\ IdleSpans /\ IdleRegister /\ IdleDiscover /\ IdleRewrite
    /\ IdleSign
    /\ IdleRequest
    /\ IdleRestore
    /\ IdleLlm

NextShape == \E original \in RegOriginals : RegisterValue(original)

SpecShape ==
    InitShape /\ [][NextShape]_vars

\* The shape: the bytes of "«TOKEN_", six decimal digits, the bytes of "»".
sixDigitShape(tok) ==
    /\ Len(tok) = Len(tokenPrefix) + 6 + Len(tokenSuffix)
    /\ SubSeq(tok, 1, Len(tokenPrefix)) = tokenPrefix
    /\ \A n \in (Len(tokenPrefix) + 1)..(Len(tokenPrefix) + 6) : tok[n] \in 48..57
    /\ SubSeq(tok, Len(tokenPrefix) + 7, Len(tok)) = tokenSuffix

\* C27 (placeholder shape): every placeholder register produces is
\* "«TOKEN_", six decimal digits and "»", whatever value the process-wide
\* counter has reached.
C27_SixDigitShape ==
    /\ phCalls > 0 => sixDigitShape(phTok)
    /\ \A tok \in DOMAIN phTm.fromToken : sixDigitShape(tok)

-----------------------------------------------------------------------------
(* One request through chatCompletions, from the client's body to the      *)
(* response (internal/api/handler.go:96-255, internal/upstream/client.go:  *)
(* 186-230)                                                                *)

\* "sk-abc123 x": the client's text with a secret, and the span a
\* classifier reports for the secret.
secretText == sk_abc123 \o <<32, 120>>
secretSpan == [Start |-> 0, End |-> Len(sk_abc123)]

\* The bodies clients send: the text of the one user message, the tools
\* field, the stream flag; prompt tells whether the tool prompt was injected.
ClientBodies ==
    [content : {secretText, <<120>>}, tools : {"none", "f", "bad"},
     stream : BOOLEAN, prompt : {FALSE}]

\* What runClassifiers may return for the text: the secret found, or nothing.
RequestSpans(text) ==
    {<<>>} \cup (IF HasPrefix(text, sk_abc123) THEN {<<secretSpan>>} ELSE {})

\* The bodies upstream answers with: a tool call whose argument is the
\* placeholder, a text with the placeholder, a text without.
RequestReplies ==
    {toolCallReply(placeholderFor(1)), placeholderFor(1) \o <<33>>, <<111, 107>>}

\* RedactMessages, sanitize.go:281-376, on a body with one user message:
\* the body it returns and the TokenMap.
RedactMessagesOf(body, spans) ==
    LET r == redactText(body.content, spans, newTokenMap, 0)
    IN  [body |-> IF r.text = body.content THEN body
                  ELSE [body EXCEPT !.content = r.text],
         tm |-> r.tm]

\* A handler that goes on with the body the client sent.
bodyKept(body, redacted) == body

\* Line 107: body, tm = h.sanitizer.RedactMessages(body).
bodyAssigned(body, redacted) == redacted

\* The body RewriteRequest returns for a body it accepts, toolsim.go:
\* 107-141: the messages with the tool prompt injected, no tools, and the
\* stream flag of RewriteRequest.
rewritten(body) ==
    [content |-> body.content, tools |-> "none",
     stream |-> RewriteRequest(body).stream, prompt |-> TRUE]

\* What the handler has written when it returns.
answer(status, out) ==
    /\ qStatus' = status
    /\ qOut' = out
    /\ qPc' = "done"

\* Lines 97-102: the client's body is read; a read error is answered 400.
ReadBody ==
    /\ qPc = "arrived"
    /\ \/ /\ qBody' = qClient
          /\ qPc' = "read"
          /\ UNCHANGED <<qStatus, qOut>>
       \/ /\ answer(400, errorBody)
          /\ UNCHANGED qBody
    /\ UNCHANGED <<qSanitizer, qSimulate, qClient, qTm, qRet, qPath, qPayload, qAttempt,
                   qSent, qUp, qRestored>>
    /\ UNCHANGED exceptRequest

\* Lines 104-111: RedactMessages, when a sanitizer is configured.
RedactBody ==
    /\ qPc = "read"
    /\ IF qSanitizer
       THEN \E spans \in RequestSpans(qBody.content) :
                LET r == RedactMessagesOf(qBody, spans)
                IN  /\ qBody' = bodyAssigned(qBody, r.body)
                    /\ qTm' = <<r.tm>>
                    /\ qRet' = <<r.body, r.tm>>
       ELSE UNCHANGED <<qBody, qTm, qRet>>
    /\ qPc' = "route"
    /\ UNCHANGED <<qSanitizer, qSimulate, qClient, qPath, qPayload, qAttempt, qSent, qUp,
                   qRestored, qStatus, qOut>>
    /\ UNCHANGED exceptRequest

\* Lines 113-131 and the head of the three response functions (lines
\* 137-147, 183, 202): the path, and the payload Do or DoStream is called
\* with; a failed rewrite is answered 400.
Dispatch ==
    /\ qPc = "route"
    /\ qPath' = route(qBody, qSimulate)
    /\ IF route(qBody, qSimulate) = "toolsim" /\ RewriteRequest(qBody).err
       THEN /\ answer(400, errorBody)
            /\ UNCHANGED <<qPayload, qAttempt>>
       ELSE /\ qPayload' = IF route(qBody, qSimulate) = "toolsim"
                           THEN rewritten(qBody) ELSE qBody
            /\ qAttempt' = 0
            /\ qPc' = "call"
            /\ UNCHANGED <<qStatus, qOut>>
    /\ UNCHANGED <<qSanitizer, qSimulate, qClient, qBody, qTm, qRet, qSent, qUp, qRestored>>
    /\ UNCHANGED exceptRequest

\* One iteration of the loop of Do / DoStream, client.go:189-204 / 214-227,
\* on a client with endpoints: the payload is sent; a transport error
\* continues the loop, and the handler answers 502 (lines 148-152, 184-188,
\* 203-207) when the call returns an error; a reply goes to the handler.
SendUpstream ==
    /\ qPc = "call"
    /\ qSent' = Append(qSent, qPayload)
    /\ qAttempt' = qAttempt + 1
    /\ \E outcome \in AttemptOutcomes :
           /\ qPath = "stream" => outcome.read = "nil"
           /\ IF retryable(outcome)
              THEN /\ UNCHANGED qUp
                   /\ IF anotherAttempt(qAttempt)
                      THEN UNCHANGED <<qPc, qStatus, qOut>>
                      ELSE answer(502, errorBody)
              ELSE \E respBody \in RequestReplies :
                       /\ qUp' = [kind |-> "reply", status |-> outcome.status,
                                  body |-> respBody]
                       /\ IF outcome.read # "nil"
                          THEN answer(502, errorBody)
                          ELSE /\ qPc' = "reply"
                               /\ UNCHANGED <<qStatus, qOut>>
    /\ UNCHANGED <<qSanitizer, qSimulate, qClient, qBody, qTm, qRet, qPath, qPayload,
                   qRestored>>
    /\ UNCHANGED exceptRequest

\* The restoration of lines 172-174 and 191-193, and of the reader of line
\* 233: applied when sanitizer and tm are not nil.
restored(bytes) ==
    IF qSanitizer /\ qTm # <<>>
    THEN \E out \in RestoreBytes(bytes, qTm[1]) :
             /\ qRestored' = qRestored \cup {bytes}
             /\ answer(IF qPath = "toolsim" THEN 200 ELSE qUp.status, out)
    ELSE /\ UNCHANGED qRestored
         /\ answer(IF qPath = "toolsim" THEN 200 ELSE qUp.status, bytes)

\* Lines 233-254 with a RestoringReader around resp.Body, the body read to
\* its end: what the client has when the source delivers the body in one
\* read that also returns EOF (all of it restored, stream.go:69-70, 87), and
\* when it delivers it in reads of at most holdBack bytes (each drained as
\* it came, stream.go:76-79, 45-48).
streamed(bytes) ==
    IF qSanitizer /\ qTm # <<>> /\ NewRestoringReader(qTm[1])
    THEN \E out \in RestoreBytes(bytes, qTm[1]) \cup {bytes} :
             /\ qRestored' = qRestored \cup {bytes}
             /\ answer(qUp.status, out)
    ELSE /\ UNCHANGED qRestored
         /\ answer(qUp.status, bytes)

\* The rest of the three response functions once the call returned a
\* reply: lines 154-179, 190-198, 210-254.
Respond ==
    /\ qPc = "reply"
    /\ IF qPath # "buffered" /\ qUp.status >= 400
       THEN /\ answer(qUp.status, qUp.body)
            /\ UNCHANGED qRestored
       ELSE IF qPath = "toolsim"
       THEN \E result \in ParseResponseBytes(qUp.body, qBody.tools) : restored(result)
       ELSE IF qPath = "stream"
       THEN streamed(qUp.body)
       ELSE restored(qUp.body)
    /\ UNCHANGED <<qSanitizer, qSimulate, qClient, qBody, qTm, qRet, qPath, qPayload,
                   qAttempt, qSent, qUp>>
    /\ UNCHANGED exceptRequest

InitRequest ==
    /\ qPc = "arrived"
    /\ qSanitizer \in BOOLEAN
    /\ qSimulate \in BOOLEAN
    /\ qClient \in ClientBodies
    /\ qBody = <<>>
    /\ qTm = <<>>
    /\ qRet = <<>>
    /\ qPath = "none"
    /\ qPayload = <<>>
    /\ qAttempt = 0
    /\ qSent = <<>>
    /\ qUp = [kind |-> "none", status |-> 0, body |-> <<>>]
    /\ qRestored = {}
    /\ qStatus = 0
    /\ qOut = <<>>
    /\ IdleStream /\ IdleRedact /\ IdleClassify /\ IdleDispatch /\ IdleHandler
    /\ IdlePool /\ IdleParse /\ IdleSpans /\ IdleRegister /\ IdleDiscover
    /\ IdleRewrite /\ IdleSign /\ IdleShape
    /\ IdleRestore
    /\ IdleLlm

NextRequest ==
    \/ ReadBody
    \/ RedactBody
    \/ Dispatch
    \/ SendUpstream
    \/ Respond

SpecRequest ==
    InitRequest /\ [][NextRequest]_vars

\* The bodies an upstream request may carry once RedactMessages returned
\* body: body itself, or RewriteRequest's rewriting of it.
carries(body) == {body, rewritten(body)}

\* C31 (redaction before dispatch): with a sanitizer, a request is sent
\* upstream only after RedactMessages has returned; every request sent,
\* retries and the tool-simulation rewrite included, carries the body
\* RedactMessages returned, holds no original of the TokenMap, and is not
\* the client's body when something was redacted; restoration is applied
\* only to what upstream replied (or what ParseResponse made of it).
C31_RedactBeforeDispatch ==
    qSanitizer =>
        /\ qSent # <<>> => qRet # <<>>
        /\ \A n \in DOMAIN qSent :
               /\ qSent[n] \in carries(qRet[1])
               /\ \A o \in DOMAIN qRet[2].toToken : ~Contains(qSent[n].content, o)
               /\ ~IsEmpty(qRet[2]) => qSent[n].content # qClient.content
        /\ qRestored # {} => qUp.kind = "reply"
        /\ \A b \in qRestored :
               b \in {qUp.body} \cup ParseResponseBytes(qUp.body, qBody.tools)

\* The client sent "sk-abc123 x" with the tool f; the first request
\* upstream met a transport error and the second was answered; both carried
\* the rewritten body with the placeholder, and the client has the tool
\* call with the secret restored.
C31_Witness ==
    /\ qPc = "done"
    /\ qSanitizer /\ qPath = "toolsim"
    /\ qClient.content = secretText
    /\ Len(qSent) = 2
    /\ qSent[1] = qSent[2]
    /\ qSent[1].content = placeholderFor(1) \o <<32, 120>>
    /\ qSent[1].prompt
    /\ qUp.body = toolCallReply(placeholderFor(1))
    /\ qStatus = 200
    /\ Contains(qOut, sk_abc123) /\ ~Contains(qOut, placeholderFor(1))

-----------------------------------------------------------------------------
(* TokenMap.Restore on a buffered response                                 *)
(* (internal/sanitize/sanitize.go:57-63)                                   *)

\* Bound: the Restore calls made with one TokenMap.
MaxRestores == 2

\* "1 b", "a b" and "1 2": the texts redaction ran on, and the spans the
\* classifiers may report in them.
one_b == <<49, 32, 98>>
a_b == <<97, 32, 98>>
one_two == <<49, 32, 50>>
RedactedTexts == {one_b, a_b, one_two}
RestoreSpans == {[Start |-> 0, End |-> 1], [Start |-> 2, End |-> 3]}

\* The TokenMaps redaction produces for these texts.
RedactionMaps ==
    {redactText(text, spans, newTokenMap, 0).tm :
        text \in RedactedTexts, spans \in SeqsUpTo(RestoreSpans, 2)}

\* «TOKEN_00000, the head of a placeholder whose id has one more digit.
tokenHead == tokenPrefix \o <<48, 48, 48, 48, 48>>

\* Response texts: no placeholder; one placeholder; both placeholders; the
\* second placeholder twice; a placeholder between the head and the suffix
\* of a placeholder.
ResponseTexts ==
    { <<111, 107>>,
      <<60>> \o placeholderFor(1) \o <<62>>,
      placeholderFor(1) \o <<32>> \o placeholderFor(2),
      placeholderFor(2) \o placeholderFor(2) \o <<33>>,
      tokenHead \o placeholderFor(1) \o tokenSuffix,
      tokenHead \o placeholderFor(2) \o tokenSuffix }

\* One call of Restore: the range over fromToken visits the entries in some
\* order.
RestoreText(text) ==
    /\ rsCalls < MaxRestores
    /\ rsCalls' = rsCalls + 1
    /\ rsText' = text
    /\ rsOut' \in Restore(rsTm, text)
    /\ UNCHANGED rsTm
    /\ UNCHANGED exceptRestore

InitRestore ==
    /\ rsTm \in RedactionMaps
    /\ rsText = <<>>
    /\ rsOut = <<>>
    /\ rsCalls = 0
    /\ IdleStream /\ IdleRedact /\ IdleClassify /\ IdleDispatch /\ IdleHandler
    /\ IdlePool /\ IdleParse /\ IdleSpans /\ IdleRegister /\ IdleDiscover
    /\ IdleRewrite /\ IdleSign /\ IdleShape /\ IdleRequest
    /\ IdleLlm

NextRestore == \E text \in ResponseTexts : RestoreText(text)

SpecRestore ==
    InitRestore /\ [][NextRestore]_vars

\* C32 (buffered restoration is order-independent): for every response text
\* and every TokenMap redaction produced, Restore gives the same result in
\* whatever order the entries are substituted, and the result contains no
\* placeholder of the map.
C32_OrderIndependent ==
    rsCalls > 0 =>
        /\ Restore(rsTm, rsText) = {rsOut}
        /\ \A tok \in DOMAIN rsTm.fromToken : ~Contains(rsOut, tok)

-----------------------------------------------------------------------------
(* llmclassifier.Classify: the search for the values the model returned    *)
(* (internal/sanitize/llmclassifier/llmclassifier.go:205-254)              *)

\* Bound: the values in one reply of the model.
MaxLlmValues == 2

\* "yx x x", "x x x", "ax x" and "x, x": "x x" occurs in the first at the
\* offsets 1 and 3, and the two occurrences share a byte.
yx_x_x == <<121, 120, 32, 120, 32, 120>>
x_x_x == <<120, 32, 120, 32, 120>>
ax_x == <<97, 120, 32, 120>>
x_comma_x == <<120, 44, 32, 120>>
LlmTexts == {yx_x_x, x_x_x, ax_x, x_comma_x}

\* "x x", "x" and " x " (which TrimSpace makes "x").
LlmValues == {<<120, 32, 120>>, <<120>>, <<32, 120, 32>>}

\* Classify, lines 205-236, once the reply is parsed.
ClassifyText ==
    /\ lcPc = "call"
    /\ lcSpans' = llmSpans(lcText, lcValues)
    /\ lcPc' = "done"
    /\ UNCHANGED <<lcText, lcValues>>
    /\ UNCHANGED exceptLlm

InitLlm ==
    /\ lcText \in LlmTexts
    /\ lcValues \in SeqsUpTo(LlmValues, MaxLlmValues)
    /\ lcPc = "call"
    /\ lcSpans = <<>>
    /\ IdleStream /\ IdleRedact /\ IdleClassify /\ IdleDispatch /\ IdleHandler
    /\ IdlePool /\ IdleParse /\ IdleSpans /\ IdleRegister /\ IdleDiscover
    /\ IdleRewrite /\ IdleSign /\ IdleShape /\ IdleRequest /\ IdleRestore

NextLlm == ClassifyText

SpecLlm ==
    InitLlm /\ [][NextLlm]_vars

\* The occurrences of val in text that have a word-boundary byte, or an end
\* of the text, on both sides.
delimitedOccurrences(text, val) ==
    {[Start |-> i, End |-> i + Len(val)] : i \in
        {i \in 0..(Len(text) - Len(val)) :
            /\ Slice(text, i, i + Len(val)) = val
            /\ i = 0 \/ text[i] \in wordBoundaryBytes
            /\ i + Len(val) = Len(text) \/ text[i + Len(val) + 1] \in wordBoundaryBytes}}

\* C35 (every delimited occurrence): for each value the model returned,
\* Classify emits a span for every occurrence of the value in the text that
\* has a word-boundary byte or an end of the text on both sides, also for
\* one that shares bytes with an occurrence that was rejected.
C35_EveryDelimitedOccurrence ==
    lcPc = "done" =>
        \A n \in DOMAIN lcValues :
            LET val == TrimSpace(lcValues[n])
            IN  (val # <<>> /\ ~HasPrefix(val, tokenPrefix)) =>
                    \A sp \in delimitedOccurrences(lcText, val) :
                        \E k \in DOMAIN lcSpans : lcSpans[k] = sp

====
